---- MODULE Spec2Model ----
(***************************************************************************)
(* Model of the return calculation engine of the mutual fund comparison    *)
(* backend: the series normalizer and investment simulator of              *)
(* services/calculationService.js and the POST /compare handler of         *)
(* routes/funds.js with its validation middleware.                         *)
(*                                                                         *)
(* Conventions.                                                            *)
(*  - A JavaScript Date is an integer number of ticks since                *)
(*    2021-01-01T00:00Z, TicksPerDay ticks to the day.  The server clock   *)
(*    runs in UTC, so getFullYear/getMonth/getDate read the UTC calendar.  *)
(*  - An ISO date string 'YYYY-MM-DD' is the tuple <<y, m, d>>; the        *)
(*    upstream 'DD-MM-YYYY' string is the tuple <<d, m, y>>.               *)
(*  - A fractional JavaScript number (units, a value before rounding) is   *)
(*    the exact rational [num, den] in lowest terms; amounts and prices    *)
(*    are drawn from sets whose quotients are exact in binary floating     *)
(*    point.  Numbers the code rounds to integers are integers.            *)
(***************************************************************************)
EXTENDS Integers, Sequences, FiniteSets, TLC

VARIABLES navData, targetDate, ret,
          pc, rawBody, body, fundData, comparison, indexData, response,
          now, databaseEnabled, memoryCache, cacheExpiry, apiCache, calls,
          searchTerm, shownFunds, debounceTimer, searches,
          isShuttingDown, server, pool, closeCallbacks, forceTimer, exit, probes, signals

engineVars == <<navData, targetDate, ret>>
routeVars == <<pc, rawBody, body, fundData, comparison, indexData, response>>
cacheVars == <<now, databaseEnabled, memoryCache, cacheExpiry, apiCache, calls>>
searchVars == <<searchTerm, shownFunds, debounceTimer, searches>>
shutdownVars == <<isShuttingDown, server, pool, closeCallbacks, forceTimer, exit, probes, signals>>
serviceVars == <<cacheVars, searchVars, shutdownVars>>

vars == <<engineVars, routeVars, serviceVars>>

----------------------------------------------------------------------------
(* Bounds *)

TicksPerDay == 2
MaxLen == 3
MaxObs == 2
MaxDuration == 2
MaxExtraMonths == 2

----------------------------------------------------------------------------
(* JavaScript values *)

Null == 0 - 1

\* null where an object is expected
NullRef == [null |-> TRUE]

\* NaN: the result of 0 / 0
NaN == 0 - 2

Falsy(x) == x = Null \/ x = 0

Min(S) == CHOOSE x \in S : \A y \in S : x <= y
Max(S) == CHOOSE x \in S : \A y \in S : x >= y

Put(f, k, v) == [x \in (DOMAIN f) \cup {k} |-> IF x = k THEN v ELSE f[x]]

EmptyObject == [x \in {} |-> 0]

Abs(x) == IF x < 0 THEN 0 - x ELSE x

\* Math.round of the quotient n / d, d > 0: halves round up
RoundDiv(n, d) == (2 * n + d) \div (2 * d)

\* (n / d).toFixed(0) as a number, d > 0: halves round away from zero
FixedDiv(n, d) == IF n >= 0 THEN (2 * n + d) \div (2 * d) ELSE 0 - ((2 * (0 - n) + d) \div (2 * d))

----------------------------------------------------------------------------
(* Fractional numbers *)

RECURSIVE GCD(_, _)
GCD(a, b) == IF b = 0 THEN a ELSE GCD(b, a % b)

\* the number n / d, d > 0
Rat(n, d) == LET g == GCD(Abs(n), d) IN [num |-> n \div g, den |-> d \div g]

FromInt(n) == [num |-> n, den |-> 1]

RatAdd(a, b) == Rat(a.num * b.den + b.num * a.den, a.den * b.den)

RatSub(a, b) == Rat(a.num * b.den - b.num * a.den, a.den * b.den)

RatMul(a, b) == Rat(a.num * b.num, a.den * b.den)

RatLess(a, b) == a.num * b.den < b.num * a.den

\* Math.round(x)
MathRound(x) == RoundDiv(x.num, x.den)

\* parseFloat(x.toFixed(digits)), scale = 10 ^ digits
ToFixed(x, scale) == Rat(FixedDiv(x.num * scale, x.den), scale)

----------------------------------------------------------------------------
(* The calendar behind Date *)

IsLeap(y) == (y % 4 = 0 /\ y % 100 # 0) \/ y % 400 = 0

DaysInMonth(y, m) ==
  IF m = 2 THEN (IF IsLeap(y) THEN 29 ELSE 28)
  ELSE IF m \in {4, 6, 9, 11} THEN 30 ELSE 31

RECURSIVE DaysBeforeMonth(_, _)
DaysBeforeMonth(y, m) ==
  IF y = 2021 /\ m = 1 THEN 0
  ELSE IF m = 1 THEN DaysBeforeMonth(y - 1, 12) + DaysInMonth(y - 1, 12)
  ELSE DaysBeforeMonth(y, m - 1) + DaysInMonth(y, m - 1)

RECURSIVE YMDFrom(_, _, _)
YMDFrom(y, m, n) ==
  IF n < DaysInMonth(y, m) THEN <<y, m, n + 1>>
  ELSE IF m = 12 THEN YMDFrom(y + 1, 1, n - DaysInMonth(y, m))
  ELSE YMDFrom(y, m + 1, n - DaysInMonth(y, m))

\* new Date('YYYY-MM-DD'): midnight UTC of that day
NewDate(iso) == (DaysBeforeMonth(iso[1], iso[2]) + iso[3] - 1) * TicksPerDay

\* date.toISOString().split('T')[0]
ToISODate(d) == YMDFrom(2021, 1, d \div TicksPerDay)

GetFullYear(d) == ToISODate(d)[1]
GetMonth(d) == ToISODate(d)[2] - 1
GetDate(d) == ToISODate(d)[3]

\* date.setMonth(mm): same day-of-month and time of day in month mm of the
\* date's year; a day-of-month the target month lacks rolls into the next
SetMonth(d, mm) ==
  (DaysBeforeMonth(GetFullYear(d) + (mm \div 12), (mm % 12) + 1) + GetDate(d) - 1) * TicksPerDay
  + (d % TicksPerDay)

\* `${getFullYear()}-${String(getMonth() + 1).padStart(2, '0')}`
MonthKey(d) == <<GetFullYear(d), GetMonth(d) + 1>>

\* 'DD-MM-YYYY'.split('-').reverse().join('-')
ReverseDate(s) == <<s[3], s[2], s[1]>>

----------------------------------------------------------------------------
(* Series normalizer: calculationService.js *)

\* [...navData].sort((a, b) => new Date(a.date) - new Date(b.date)), stable
RECURSIVE InsertByDate(_, _)
InsertByDate(sorted, item) ==
  IF sorted = <<>> THEN <<item>>
  ELSE IF NewDate(sorted[Len(sorted)].date) <= NewDate(item.date)
       THEN Append(sorted, item)
       ELSE Append(InsertByDate(SubSeq(sorted, 1, Len(sorted) - 1), item),
                   sorted[Len(sorted)])

RECURSIVE SortByDate(_)
SortByDate(s) ==
  IF s = <<>> THEN <<>>
  ELSE InsertByDate(SortByDate(SubSeq(s, 1, Len(s) - 1)), s[Len(s)])

findNavOnDate_Nearest(nav, t) ==
  LET sorted == SortByDate(nav)
      dist(i) == IF NewDate(sorted[i].date) <= t THEN t - NewDate(sorted[i].date)
                 ELSE NewDate(sorted[i].date) - t
      best == CHOOSE i \in 1..Len(sorted) : \A j \in 1..Len(sorted) : dist(i) <= dist(j)
  IN IF Len(sorted) = 0 THEN Null ELSE sorted[best].nav

findNavOnDateIn(nav, t, exact, sorted) ==
  IF exact # {} THEN nav[Min(exact)].nav
  ELSE IF \E i \in 1..Len(sorted) : NewDate(sorted[i].date) <= t
       THEN sorted[Max({i \in 1..Len(sorted) : NewDate(sorted[i].date) <= t})].nav
  ELSE IF Len(sorted) = 0 \/ Falsy(sorted[1].nav) THEN Null
  ELSE sorted[1].nav

findNavOnDate(nav, t) ==
  findNavOnDateIn(nav, t, {i \in 1..Len(nav) : nav[i].date = ToISODate(t)}, SortByDate(nav))

\* live variant (first CalculationService class)
\* the date of the entry whose price the month holds
existingDate(nav, item, monthKey, grouped) ==
  LET found == {j \in 1..Len(nav) : /\ MonthKey(NewDate(nav[j].date)) = monthKey
                                    /\ nav[j].nav = grouped[monthKey]}
  IN NewDate(IF found # {} THEN nav[Min(found)].date ELSE item.date)

\* the body of the forEach for one item
groupNavByMonthItem(nav, item, monthKey, grouped) ==
  IF monthKey \notin DOMAIN grouped \/ Falsy(grouped[monthKey])
  THEN Put(grouped, monthKey, item.nav)
  ELSE IF GetDate(NewDate(item.date)) <= GetDate(existingDate(nav, item, monthKey, grouped))
       THEN Put(grouped, monthKey, item.nav)
       ELSE grouped

RECURSIVE groupNavByMonthFrom(_, _, _)
groupNavByMonthFrom(nav, i, grouped) ==
  IF i > Len(nav) THEN grouped
  ELSE groupNavByMonthFrom(nav, i + 1,
         groupNavByMonthItem(nav, nav[i], MonthKey(NewDate(nav[i].date)), grouped))

groupNavByMonth(nav) == groupNavByMonthFrom(nav, 1, EmptyObject)

\* static variant (second CalculationService class): first stored wins
groupNavByMonthStaticItem(item, monthKey, grouped) ==
  IF monthKey \notin DOMAIN grouped \/ Falsy(grouped[monthKey])
  THEN Put(grouped, monthKey, item.nav)
  ELSE grouped

RECURSIVE groupNavByMonthStaticFrom(_, _, _)
groupNavByMonthStaticFrom(nav, i, grouped) ==
  IF i > Len(nav) THEN grouped
  ELSE groupNavByMonthStaticFrom(nav, i + 1,
         groupNavByMonthStaticItem(nav[i], MonthKey(NewDate(nav[i].date)), grouped))

groupNavByMonthStatic(nav) == groupNavByMonthStaticFrom(nav, 1, EmptyObject)

----------------------------------------------------------------------------
(* Investment simulator: calculationService.js *)

Threw(message) == [threw |-> TRUE, error |-> message]

Last(s) == s[Len(s)]

\* a simulator that buys for each fund whenever that fund alone has a price
RECURSIVE calculateSIPLoop_PerFund(_, _, _, _, _, _)
calculateSIPLoop_PerFund(currentNavByMonth, comparisonNavByMonth, monthlyAmount, current, end, acc) ==
  IF ~(current <= end) THEN acc
  ELSE
    LET monthKey == MonthKey(current)
        cu == (IF monthKey \in DOMAIN currentNavByMonth
               THEN RatAdd(acc.currentUnits, Rat(monthlyAmount, currentNavByMonth[monthKey]))
               ELSE acc.currentUnits)
        pu == (IF monthKey \in DOMAIN comparisonNavByMonth
               THEN RatAdd(acc.comparisonUnits, Rat(monthlyAmount, comparisonNavByMonth[monthKey]))
               ELSE acc.comparisonUnits)
        ti == acc.totalInvested +
              (IF monthKey \in (DOMAIN currentNavByMonth) \cup (DOMAIN comparisonNavByMonth)
               THEN monthlyAmount ELSE 0)
    IN calculateSIPLoop_PerFund(currentNavByMonth, comparisonNavByMonth, monthlyAmount,
         SetMonth(current, GetMonth(current) + 1), end,
         [threw |-> FALSE, currentUnits |-> cu, comparisonUnits |-> pu,
          totalInvested |-> ti, chartData |-> acc.chartData])

\* a purchase at the prices of the month
calculateSIPBuy(monthKey, currentNavValue, comparisonNavValue, cu, pu, ti, chartData) ==
  [threw |-> FALSE, currentUnits |-> cu, comparisonUnits |-> pu, totalInvested |-> ti,
   chartData |-> Append(chartData,
                   [date |-> monthKey,
                    current |-> MathRound(RatMul(cu, FromInt(currentNavValue))),
                    comparison |-> MathRound(RatMul(pu, FromInt(comparisonNavValue))),
                    invested |-> ti])]

calculateSIPMonth(monthKey, currentNavValue, comparisonNavValue, monthlyAmount, acc) ==
  IF ~Falsy(currentNavValue) /\ ~Falsy(comparisonNavValue)
  THEN calculateSIPBuy(monthKey, currentNavValue, comparisonNavValue,
         RatAdd(acc.currentUnits, Rat(monthlyAmount, currentNavValue)),
         RatAdd(acc.comparisonUnits, Rat(monthlyAmount, comparisonNavValue)),
         acc.totalInvested + monthlyAmount, acc.chartData)
  ELSE acc

\* navByMonth[monthKey]
NavOfMonth(navByMonth, monthKey) ==
  IF monthKey \in DOMAIN navByMonth THEN navByMonth[monthKey] ELSE Null

\* the body of the loop for the month of current
calculateSIPStep(currentNavByMonth, comparisonNavByMonth, monthlyAmount, current, acc) ==
  calculateSIPMonth(MonthKey(current), NavOfMonth(currentNavByMonth, MonthKey(current)),
                    NavOfMonth(comparisonNavByMonth, MonthKey(current)), monthlyAmount, acc)

RECURSIVE calculateSIPLoop(_, _, _, _, _, _)
calculateSIPLoop(currentNavByMonth, comparisonNavByMonth, monthlyAmount, current, end, acc) ==
  IF ~(current <= end) THEN acc
  ELSE calculateSIPLoop(currentNavByMonth, comparisonNavByMonth, monthlyAmount,
                        SetMonth(current, GetMonth(current) + 1), end,
                        calculateSIPStep(currentNavByMonth, comparisonNavByMonth,
                                         monthlyAmount, current, acc))

\* let currentUnits = 0 ... let chartData = []
calculateSIPStart ==
  [threw |-> FALSE, currentUnits |-> FromInt(0), comparisonUnits |-> FromInt(0),
   totalInvested |-> 0, chartData |-> <<>>]

Now == NewDate(<<2021, 4, 1>>)

calculateSIP(currentNav, comparisonNav, monthlyAmount, startDate, endDate) ==
  calculateSIPLoop(groupNavByMonth(currentNav), groupNavByMonth(comparisonNav),
                   monthlyAmount, startDate, IF endDate # Null THEN endDate ELSE Now,
                   calculateSIPStart)

calculateLumpSumAt(currentNavOnDate, comparisonNavOnDate, amount) ==
  IF Falsy(currentNavOnDate) \/ Falsy(comparisonNavOnDate)
  THEN Threw("NAV data not available for the specified investment date")
  ELSE [threw |-> FALSE,
        currentUnits |-> Rat(amount, currentNavOnDate),
        comparisonUnits |-> Rat(amount, comparisonNavOnDate),
        totalInvested |-> amount,
        chartData |-> <<>>]

calculateLumpSum(currentNav, comparisonNav, amount, investmentDate) ==
  calculateLumpSumAt(findNavOnDate(currentNav, investmentDate),
                     findNavOnDate(comparisonNav, investmentDate), amount)

\* chartData.slice(-24)
LastN(s, n) == IF Len(s) <= n THEN s ELSE SubSeq(s, Len(s) - n + 1, Len(s))

\* navData[navData.length - 1].nav || 0
LatestNavOf(fund) == IF Falsy(Last(fund.navData).nav) THEN 0 ELSE Last(fund.navData).nav

\* the result object but for percentageDifference
resultObject(currentFund, comparisonFund, sim, currentValue, comparisonValue, percentage) ==
  [threw |-> FALSE,
   current |-> [value |-> MathRound(currentValue),
                invested |-> sim.totalInvested,
                fund |-> currentFund.fundName,
                units |-> ToFixed(sim.currentUnits, 10000),
                latestNav |-> LatestNavOf(currentFund)],
   comparison |-> [value |-> MathRound(comparisonValue),
                   invested |-> sim.totalInvested,
                   fund |-> comparisonFund.fundName,
                   units |-> ToFixed(sim.comparisonUnits, 10000),
                   latestNav |-> LatestNavOf(comparisonFund)],
   difference |-> MathRound(RatSub(comparisonValue, currentValue)),
   percentageDifference |-> percentage,
   chartData |-> LastN(sim.chartData, 24)]

comparisonResultOf(currentFund, comparisonFund, sim, currentValue, comparisonValue) ==
  LET delta == RatSub(comparisonValue, currentValue)
  IN resultObject(currentFund, comparisonFund, sim, currentValue, comparisonValue,
       \* in hundredths of a percent point
       IF sim.totalInvested > 0
       THEN FixedDiv(delta.num * 10000, delta.den * sim.totalInvested)
       ELSE 0)

\* the result object built from the units and capital of the simulation; a
\* simulation that threw ends the call
comparisonResult(currentFund, comparisonFund, sim) ==
  IF sim.threw THEN sim
  ELSE comparisonResultOf(currentFund, comparisonFund, sim,
         RatMul(sim.currentUnits, FromInt(LatestNavOf(currentFund))),
         RatMul(sim.comparisonUnits, FromInt(LatestNavOf(comparisonFund))))

calculatePortfolioComparison(currentFund, comparisonFund, investmentType, amount, startDate, endDate) ==
  IF Len(currentFund.navData) = 0 \/ Len(comparisonFund.navData) = 0
  THEN Threw("Insufficient NAV data for calculation")
  ELSE comparisonResult(currentFund, comparisonFund,
         IF investmentType = "sip"
         THEN calculateSIP(currentFund.navData, comparisonFund.navData, amount, startDate, endDate)
         ELSE calculateLumpSum(currentFund.navData, comparisonFund.navData, amount, startDate))

\* The static variant of the service: its calculateLumpSum and findNavOnDate
\* are those above; its calculateSIP groups with the static groupNavByMonth
\* and values the chart at the latest price.

\* navData[navData.length - 1].nav || navValue
LatestNavOr(nav, navValue) == IF Falsy(Last(nav).nav) THEN navValue ELSE Last(nav).nav

calculateSIPMonthStatic(currentNav, comparisonNav, monthKey, currentNavValue, comparisonNavValue, monthlyAmount, acc) ==
  IF ~Falsy(currentNavValue) /\ ~Falsy(comparisonNavValue)
  THEN calculateSIPBuy(monthKey, LatestNavOr(currentNav, currentNavValue),
         LatestNavOr(comparisonNav, comparisonNavValue),
         RatAdd(acc.currentUnits, Rat(monthlyAmount, currentNavValue)),
         RatAdd(acc.comparisonUnits, Rat(monthlyAmount, comparisonNavValue)),
         acc.totalInvested + monthlyAmount, acc.chartData)
  ELSE acc

RECURSIVE calculateSIPLoopStatic(_, _, _, _, _, _, _, _)
calculateSIPLoopStatic(currentNav, comparisonNav, currentNavByMonth, comparisonNavByMonth, monthlyAmount, current, end, acc) ==
  IF ~(current <= end) THEN acc
  ELSE calculateSIPLoopStatic(currentNav, comparisonNav, currentNavByMonth,
         comparisonNavByMonth, monthlyAmount, SetMonth(current, GetMonth(current) + 1), end,
         calculateSIPMonthStatic(currentNav, comparisonNav, MonthKey(current),
           NavOfMonth(currentNavByMonth, MonthKey(current)),
           NavOfMonth(comparisonNavByMonth, MonthKey(current)), monthlyAmount, acc))

calculateSIPStatic(currentNav, comparisonNav, monthlyAmount, startDate, endDate) ==
  calculateSIPLoopStatic(currentNav, comparisonNav, groupNavByMonthStatic(currentNav),
                         groupNavByMonthStatic(comparisonNav), monthlyAmount, startDate,
                         IF endDate # Null THEN endDate ELSE Now, calculateSIPStart)

comparisonResultStaticOf(currentFund, comparisonFund, sim, currentValue, comparisonValue) ==
  LET delta == RatSub(comparisonValue, currentValue)
  IN resultObject(currentFund, comparisonFund, sim, currentValue, comparisonValue,
       \* in hundredths of a percent point; NaN for 0 / 0
       IF sim.totalInvested > 0
       THEN (IF currentValue.num = 0 THEN NaN
             ELSE FixedDiv(delta.num * currentValue.den * 10000, delta.den * currentValue.num))
       ELSE 0)

comparisonResultStatic(currentFund, comparisonFund, sim) ==
  IF sim.threw THEN sim
  ELSE comparisonResultStaticOf(currentFund, comparisonFund, sim,
         RatMul(sim.currentUnits, FromInt(LatestNavOf(currentFund))),
         RatMul(sim.comparisonUnits, FromInt(LatestNavOf(comparisonFund))))

calculatePortfolioComparisonStatic(currentFund, comparisonFund, investmentType, amount, startDate, endDate) ==
  IF Len(currentFund.navData) = 0 \/ Len(comparisonFund.navData) = 0
  THEN Threw("Insufficient NAV data for calculation")
  ELSE comparisonResultStatic(currentFund, comparisonFund,
         IF investmentType = "sip"
         THEN calculateSIPStatic(currentFund.navData, comparisonFund.navData, amount,
                                 startDate, endDate)
         ELSE calculateLumpSum(currentFund.navData, comparisonFund.navData, amount, startDate))

\* multi-fund SIP leg
\* Math.abs(new Date(date) - t)
DateDistance(date, t) == Abs(NewDate(date) - t)

\* the first item of the array with the smallest distance
closestNav(nav, t) ==
  Min({i \in 1..Len(nav) : \A j \in 1..Len(nav) :
         DateDistance(nav[i].date, t) <= DateDistance(nav[j].date, t)})

\* x || 100
OrHundred(x) == IF Falsy(x) THEN 100 ELSE x

findNavForDateIn(nav, t, exact) ==
  IF exact # {} THEN nav[Min(exact)].nav ELSE OrHundred(nav[closestNav(nav, t)].nav)

findNavForDate(nav, t) ==
  findNavForDateIn(nav, t, {i \in 1..Len(nav) : nav[i].date = ToISODate(t)})

calculateSIPReturnsAt(acc, monthlyAmount, month, currentDate, monthNav) ==
  LET units == Rat(monthlyAmount, monthNav)
      totalInvested == acc.totalInvested + monthlyAmount
      totalUnits == RatAdd(acc.totalUnits, units)
  IN [totalInvested |-> totalInvested,
      totalUnits |-> totalUnits,
      monthlyData |-> Append(acc.monthlyData,
                        [month |-> month + 1,
                         date |-> ToISODate(currentDate),
                         amount |-> monthlyAmount,
                         nav |-> monthNav,
                         units |-> units,
                         totalInvested |-> totalInvested,
                         totalUnits |-> totalUnits])]

\* the body of the loop for the month of currentDate
calculateSIPReturnsMonth(nav, acc, monthlyAmount, month, currentDate) ==
  calculateSIPReturnsAt(acc, monthlyAmount, month, currentDate,
    OrHundred(findNavForDate(nav, currentDate)))

RECURSIVE calculateSIPReturnsLoop(_, _, _, _, _, _)
calculateSIPReturnsLoop(nav, monthlyAmount, duration, start, month, acc) ==
  IF ~(month < duration) THEN acc
  ELSE calculateSIPReturnsLoop(nav, monthlyAmount, duration, start, month + 1,
         calculateSIPReturnsMonth(nav, acc, monthlyAmount, month, SetMonth(start, GetMonth(start) + month)))

\* the result of the loop valued at navData[navData.length - 1]?.nav || 100
calculateSIPReturnsResult(nav, loop) ==
  LET latestNav == IF Len(nav) = 0 \/ Falsy(Last(nav).nav) THEN 100 ELSE Last(nav).nav
      currentValue == RatMul(loop.totalUnits, FromInt(latestNav))
      absoluteReturn == RatSub(currentValue, FromInt(loop.totalInvested))
  IN [threw |-> FALSE,
      totalInvested |-> loop.totalInvested,
      currentValue |-> MathRound(currentValue),
      absoluteReturn |-> MathRound(absoluteReturn),
      units |-> loop.totalUnits,
      monthlyData |-> loop.monthlyData,
      cashFlows |-> Append([i \in 1..Len(loop.monthlyData) |->
                              FromInt(0 - loop.monthlyData[i].amount)],
                           currentValue),
      dates |-> Append([i \in 1..Len(loop.monthlyData) |-> NewDate(loop.monthlyData[i].date)],
                       Now)]

\* The annualized return is the floating point result of calculateXIRR over
\* cashFlows and dates; the model records the arguments of that call.
calculateSIPReturns(nav, monthlyAmount, duration, startDate) ==
  IF Len(nav) = 0 /\ duration > 0
  THEN Threw("TypeError")    \* navData[0].date of an empty array, rethrown
  ELSE calculateSIPReturnsResult(nav,
         calculateSIPReturnsLoop(nav, monthlyAmount, duration, startDate, 0,
           [totalInvested |-> 0, totalUnits |-> FromInt(0), monthlyData |-> <<>>]))

----------------------------------------------------------------------------
(* Benchmark leg: routes/funds.js *)

\* Math.ceil of n / d, n >= 0, d > 0
CeilDiv(n, d) == (n + d - 1) \div d

calculatePeriodFromDates(startDate, endDate) ==
  IF startDate = Null \/ endDate = Null THEN "1y"
  ELSE
    LET diffDays == CeilDiv(Abs(endDate - startDate), TicksPerDay)
    IN IF diffDays <= 7 THEN "1w"
       ELSE IF diffDays <= 30 THEN "1mo"
       ELSE IF diffDays <= 90 THEN "3mo"
       ELSE IF diffDays <= 180 THEN "6mo"
       ELSE IF diffDays <= 365 THEN "1y"
       ELSE IF diffDays <= 730 THEN "2y"
       ELSE "5y"

\* data is not empty; target is a Date
findPriceForDate(data, target) ==
  data[Min({i \in 1..Len(data) : \A j \in 1..Len(data) :
              DateDistance(data[i].date, target) <= DateDistance(data[j].date, target)})].close

indexSIPBuy(amount, monthPrice, acc) ==
  IF ~Falsy(monthPrice)
  THEN [totalUnits |-> RatAdd(acc.totalUnits, Rat(amount, monthPrice)),
        totalInvested |-> acc.totalInvested + amount]
  ELSE acc

RECURSIVE indexSIPLoop(_, _, _, _, _)
indexSIPLoop(data, amount, current, end, acc) ==
  IF ~(current <= end) THEN acc
  ELSE indexSIPLoop(data, amount, SetMonth(current, GetMonth(current) + 1), end,
         indexSIPBuy(amount, findPriceForDate(data, NewDate(ToISODate(current))), acc))

\* the result for the capital, the units and the last price
indexReturns(invested, units, endPrice) ==
  LET currentValue == RatMul(units, FromInt(endPrice))
      absoluteReturn == RatSub(currentValue, FromInt(invested))
  IN [threw |-> FALSE,
      invested |-> invested,
      currentValue |-> MathRound(currentValue),
      absoluteReturn |-> MathRound(absoluteReturn),
      returnPercentage |-> IF invested = 0 THEN NaN
                           ELSE RoundDiv(absoluteReturn.num * 10000, absoluteReturn.den * invested),
      units |-> Rat(RoundDiv(units.num * 1000, units.den), 1000)]

indexSIPReturns(loop, endPrice) == indexReturns(loop.totalInvested, loop.totalUnits, endPrice)

\* The annualized return of the lump sum branch is a floating point power and
\* is left out of the record.  returnPercentage is in hundredths.
calculateIndexReturnsForPeriod(idxData, startDate, endDate, investmentType, amount) ==
  IF Len(idxData.data) = 0 THEN Threw("No index data available for calculation")
  ELSE IF investmentType = "lump"
  THEN indexReturns(amount, Rat(amount, findPriceForDate(idxData.data, startDate)),
                    Last(idxData.data).close)
  ELSE indexSIPReturns(
         IF endDate = Null   \* new Date(undefined): no date is <= it
         THEN [totalUnits |-> FromInt(0), totalInvested |-> 0]
         ELSE indexSIPLoop(idxData.data, amount, startDate, endDate,
                           [totalUnits |-> FromInt(0), totalInvested |-> 0]),
         Last(idxData.data).close)

----------------------------------------------------------------------------
(* Inputs of the engine functions *)

NavValues == {10, 20}

Amounts == {100}

SeriesDates == {<<2021, 1, 5>>, <<2021, 1, 15>>, <<2021, 1, 31>>,
                <<2021, 2, 1>>, <<2021, 2, 15>>}

Observations == [date : SeriesDates, nav : NavValues]

DistinctDates(s) == \A i, j \in 1..Len(s) : i # j => s[i].date # s[j].date

RECURSIVE SeqsUpTo(_, _)
SeqsUpTo(S, n) ==
  IF n = 0 THEN {<<>>}
  ELSE LET shorter == SeqsUpTo(S, n - 1)
       IN shorter \cup {Append(s, x) : s \in {t \in shorter : Len(t) = n - 1}, x \in S}

\* a price series: one observation per date, stored in any order
PriceSeries == {s \in SeqsUpTo(Observations, MaxLen) : Len(s) >= 1 /\ DistinctDates(s)}

Noon == TicksPerDay \div 2

TargetDates == {NewDate(<<2021, 1, 1>>), NewDate(<<2021, 1, 5>>) + Noon,
                NewDate(<<2021, 1, 15>>), NewDate(<<2021, 1, 20>>),
                NewDate(<<2021, 1, 31>>) + Noon, NewDate(<<2021, 2, 1>>),
                NewDate(<<2021, 2, 10>>), NewDate(<<2021, 2, 28>>)}

NoReturn == [op |-> "none"]

\* request bodies: investment type, amount, start, optional end, optional
\* benchmark key
StartDateStrings == {<<2021, 1, 15>>, <<2021, 1, 31>>}

EndDateStrings == {<<2021, 1, 1>>, <<2021, 2, 15>>, <<2021, 2, 28>>}

BenchmarkKeys == {"sensex"}

RequestBodies ==
  {base @@ ext1 @@ ext2 :
     base \in [currentFundCode : {"100001"}, comparisonFundCode : {"100002"},
               investmentType : {"sip", "lump", "weekly"}, amount : {0} \cup Amounts,
               startDate : StartDateStrings],
     ext1 \in {EmptyObject} \cup [endDate : EndDateStrings],
     ext2 \in {EmptyObject} \cup [benchmarkIndex : BenchmarkKeys]}


----------------------------------------------------------------------------
(* Engine specification: one engine function is invoked on arbitrary inputs *)

RouteIdle ==
  /\ pc = "idle"
  /\ rawBody = EmptyObject
  /\ body = EmptyObject
  /\ fundData = <<>>
  /\ comparison = NullRef
  /\ indexData = NullRef
  /\ response = NullRef

\* the services as constructed, without the database, and no call made
Services == {"mfApiService", "indexDataService"}

Callers == {"a", "b"}

\* a caller that has not called
NoCall ==
  [fn |-> "none", pc |-> "idle", calledAt |-> 0, data |-> NullRef, result |-> NullRef,
   upstreamFailed |-> FALSE]

CachesEmpty ==
  /\ now = 0
  /\ memoryCache = [s \in Services |-> EmptyObject]
  /\ cacheExpiry = [s \in Services |-> EmptyObject]
  /\ apiCache = EmptyObject
  /\ calls = [c \in Callers |-> NoCall]

\* FundSearchDropdown after its first render: useState('') and useState([]),
\* and the effect has set its timer.  A term is the sequence of its
\* characters.
DropdownCreated ==
  /\ searchTerm = <<>>
  /\ shownFunds = [query |-> "none"]
  /\ debounceTimer = TRUE
  /\ searches = {}

ProbePaths == {"/health", "/ready"}

\* server.js after app.listen: no signal received, no probe received
ServerListening ==
  /\ isShuttingDown = FALSE
  /\ server = "listening"
  /\ pool = "open"
  /\ closeCallbacks = 0
  /\ forceTimer = FALSE
  /\ exit = NullRef
  /\ probes = [path \in ProbePaths |-> [state |-> "none"]]
  /\ signals = 0

ServicesIdle ==
  /\ databaseEnabled = FALSE
  /\ CachesEmpty
  /\ DropdownCreated
  /\ ServerListening

EngineInit ==
  /\ navData \in PriceSeries
  /\ targetDate \in TargetDates
  /\ ret = NoReturn
  /\ RouteIdle
  /\ ServicesIdle

FindNavOnDateCall ==
  /\ ret = NoReturn
  /\ ret' = [op |-> "findNavOnDate", value |-> findNavOnDate(navData, targetDate)]
  /\ UNCHANGED <<navData, targetDate, routeVars, serviceVars>>

GroupNavByMonthCall ==
  /\ ret = NoReturn
  /\ ret' = [op |-> "groupNavByMonth", value |-> groupNavByMonth(navData)]
  /\ UNCHANGED <<navData, targetDate, routeVars, serviceVars>>

GroupNavByMonthStaticCall ==
  /\ ret = NoReturn
  /\ ret' = [op |-> "groupNavByMonthStatic", value |-> groupNavByMonthStatic(navData)]
  /\ UNCHANGED <<navData, targetDate, routeVars, serviceVars>>

\* schemas.multiSipCalculation: duration min(12)
MinDuration == 12

\* the multi-fund SIP leg, started on targetDate
CalculateSIPReturnsCall ==
  /\ ret = NoReturn
  /\ \E monthlyAmount \in Amounts, duration \in (1..MaxDuration) \cup {MinDuration} :
       ret' = [op |-> "calculateSIPReturns",
               monthlyAmount |-> monthlyAmount, duration |-> duration,
               value |-> calculateSIPReturns(navData, monthlyAmount, duration, targetDate)]
  /\ UNCHANGED <<navData, targetDate, routeVars, serviceVars>>

AsIndexData(nav) == [data |-> [i \in 1..Len(nav) |-> [date |-> nav[i].date, close |-> nav[i].nav]]]

\* the benchmark leg over the same observations, from targetDate to endDate
CalculateIndexReturnsCall ==
  /\ ret = NoReturn
  /\ \E amount \in Amounts, investmentType \in {"sip", "lump"},
        endDate \in {e \in TargetDates : e >= targetDate} :
       ret' = [op |-> "calculateIndexReturnsForPeriod",
               amount |-> amount, investmentType |-> investmentType, endDate |-> endDate,
               value |-> calculateIndexReturnsForPeriod(AsIndexData(navData), targetDate,
                                                        endDate, investmentType, amount)]
  /\ UNCHANGED <<navData, targetDate, routeVars, serviceVars>>

EngineNext ==
  \/ FindNavOnDateCall
  \/ GroupNavByMonthCall
  \/ GroupNavByMonthStaticCall
  \/ CalculateSIPReturnsCall
  \/ CalculateIndexReturnsCall

EngineSpec == EngineInit /\ [][EngineNext]_vars

----------------------------------------------------------------------------
(* Validation middleware: middleware/validation.js *)

\* the keys of schemas.comparePortfolios
ComparePortfoliosKeys == {"currentFundCode", "comparisonFundCode", "investmentType",
                          "amount", "startDate", "endDate"}

RequiredKeys == ComparePortfoliosKeys \ {"endDate"}

\* strings matching /^\d{6}$/ among those the clients send
SixDigitCodes == {"100001", "100002"}

\* Joi.date().iso() with convert: 'YYYY-MM-DD' or 'YYYY-MM-DDThh:mmZ', the
\* latter written <<y, m, d, ticks into the day>>
ParseISO(str) == NewDate(<<str[1], str[2], str[3]>>) + (IF Len(str) = 4 THEN str[4] ELSE 0)

SchemaAccepts(b) ==
  /\ RequiredKeys \subseteq DOMAIN b
  /\ b.currentFundCode \in SixDigitCodes
  /\ b.comparisonFundCode \in SixDigitCodes
  /\ b.investmentType \in {"sip", "lump"}
  /\ b.amount > 0
  /\ b.amount <= 10000000
  /\ "endDate" \in DOMAIN b => ParseISO(b.endDate) >= ParseISO(b.startDate)

\* the validated value: unknown keys stripped, dates converted
SchemaValue(b) ==
  [k \in (DOMAIN b) \cap ComparePortfoliosKeys |->
     IF k \in {"startDate", "endDate"} THEN ParseISO(b[k]) ELSE b[k]]

----------------------------------------------------------------------------
(* Providers *)

\* parseFloat of a decimal numeral, written as its digits
RECURSIVE ParseFloat(_)
ParseFloat(digits) ==
  IF digits = <<>> THEN 0
  ELSE 10 * ParseFloat(SubSeq(digits, 1, Len(digits) - 1)) + digits[Len(digits)]

NavStrings == {<<1, 0>>, <<2, 0>>}

\* upstream dates, 'DD-MM-YYYY'
ApiDates == {<<31, 1, 2021>>, <<15, 2, 2021>>, <<15, 3, 2021>>}

ApiObservations == [date : ApiDates, nav : NavStrings]

\* api.mfapi.in lists the observations of a scheme latest first
LatestFirst(s) ==
  \A i \in 1..(Len(s) - 1) : NewDate(ReverseDate(s[i].date)) > NewDate(ReverseDate(s[i + 1].date))

ApiSeries == {s \in SeqsUpTo(ApiObservations, MaxObs) : LatestFirst(s)}

SchemeName(code) == <<"Scheme", code>>

\* the responses of GET /mf/:schemeCode: with a data array, or without one
FundResponses(code) ==
  {[meta |-> [scheme_name |-> SchemeName(code), scheme_code |-> code], data |-> d] : d \in ApiSeries}
  \cup {[meta |-> [scheme_name |-> SchemeName(code), scheme_code |-> code]]}

\* the status the error handler answers with when the upstream call fails:
\* an upstream 4xx, an upstream 5xx or network error, any other exception
FetchErrorStatuses == {400, 502, 500}

indexSymbols ==
  [nifty50 |-> "^NSEI", sensex |-> "^BSESN", nifty500 |-> "^CRSLDX",
   niftymidcap |-> "NIFTYMIDCAP50.NS", niftysmallcap |-> "NIFTYSMALLCAP50.NS",
   niftybank |-> "^NSEBANK", niftyit |-> "^CNXIT"]

IndexDates == {<<2021, 1, 31>>, <<2021, 2, 15>>, <<2021, 3, 15>>}

\* closing prices of the indices the clients ask for
IndexClose(indexKey, date) ==
  IF indexKey = "sensex"
  THEN (IF date[2] = 1 THEN 50 ELSE IF date[2] = 2 THEN 25 ELSE 20)
  ELSE (IF date[2] = 1 THEN 10 ELSE IF date[2] = 2 THEN 20 ELSE 25)

EarliestFirst(s) ==
  \A i \in 1..(Len(s) - 1) : NewDate(s[i].date) < NewDate(s[i + 1].date)

\* the charts the index provider answers with: any days of the period
IndexHistoryTable ==
  [indexKey \in DOMAIN indexSymbols |->
     {s \in SeqsUpTo([date : IndexDates, close : {10, 20, 25, 50}], MaxObs) :
        /\ EarliestFirst(s)
        /\ \A i \in 1..Len(s) : s[i].close = IndexClose(indexKey, s[i].date)}]

IndexHistories(indexKey) == IndexHistoryTable[indexKey]

----------------------------------------------------------------------------
(* POST /compare: routes/funds.js *)

DefaultBenchmarkIndex == "nifty50"

BenchmarkIndexOf(b) ==
  IF "benchmarkIndex" \in DOMAIN b THEN b.benchmarkIndex ELSE DefaultBenchmarkIndex

EndDateOf(b) == IF "endDate" \in DOMAIN b THEN b.endDate ELSE Null

HasData(resp) == "data" \in DOMAIN resp

filterNavData(nav, from, to) ==
  LET fromDate == from
      toDate == IF to # Null THEN to ELSE Now
  IN SelectSeq(nav, LAMBDA item :
       /\ NewDate(ReverseDate(item.date)) >= fromDate
       /\ NewDate(ReverseDate(item.date)) <= toDate)

Reverse(s) == [i \in 1..Len(s) |-> s[Len(s) + 1 - i]]

\* { fundName, schemeCode, navData: filtered.map(...).reverse() }
FormatFund(resp, filtered) ==
  [fundName |-> resp.meta.scheme_name,
   schemeCode |-> resp.meta.scheme_code,
   navData |-> Reverse([i \in 1..Len(filtered) |->
                          [date |-> ReverseDate(filtered[i].date),
                           nav |-> ParseFloat(filtered[i].nav)]])]

NavFiltered(b, resp) == filterNavData(resp.data, b.startDate, EndDateOf(b))

CurrentNavFiltered == NavFiltered(body, fundData[1])
ComparisonNavFiltered == NavFiltered(body, fundData[2])

ErrorResponse(status, error) == [status |-> status, error |-> error]

CompareResponse(indexComparison, idxData) ==
  [status |-> 200,
   current |-> comparison.current,
   comparison |-> comparison.comparison,
   difference |-> comparison.difference,
   percentageDifference |-> comparison.percentageDifference,
   chartData |-> comparison.chartData,
   index |-> IF indexComparison # NullRef
             THEN [benchmarkIndex |-> BenchmarkIndexOf(body),
                   name |-> idxData.symbol,
                   invested |-> indexComparison.invested,
                   currentValue |-> indexComparison.currentValue,
                   absoluteReturn |-> indexComparison.absoluteReturn,
                   returnPercentage |-> indexComparison.returnPercentage,
                   units |-> indexComparison.units]
             ELSE NullRef,
   metadata |-> [investmentType |-> body.investmentType,
                 amount |-> body.amount,
                 dateRange |-> [startDate |-> body.startDate, endDate |-> EndDateOf(body)],
                 dataPoints |-> [current |-> Len(CurrentNavFiltered),
                                 comparison |-> Len(ComparisonNavFiltered)],
                 includesIndexComparison |-> indexComparison # NullRef]]

\* a client posts a body
Receive ==
  /\ pc = "idle"
  /\ rawBody' \in RequestBodies
  /\ pc' = "received"
  /\ UNCHANGED <<body, fundData, comparison, indexData, response, engineVars, serviceVars>>

\* validateComparePortfolios
Validate ==
  /\ pc = "received"
  /\ IF SchemaAccepts(rawBody)
     THEN /\ body' = SchemaValue(rawBody)
          /\ pc' = "validated"
          /\ UNCHANGED response
     ELSE /\ response' = ErrorResponse(400, "Validation failed")
          /\ pc' = "done"
          /\ UNCHANGED body
  /\ UNCHANGED <<rawBody, fundData, comparison, indexData, engineVars, serviceVars>>

\* both getFundNavData calls resolve
FetchFunds ==
  /\ pc = "validated"
  /\ \E cur \in FundResponses(body.currentFundCode),
        cmp \in FundResponses(body.comparisonFundCode) :
       fundData' = <<cur, cmp>>
  /\ pc' = "fetched"
  /\ UNCHANGED <<rawBody, body, comparison, indexData, response, engineVars, serviceVars>>

\* one of the getFundNavData calls rejects: asyncHandler hands the error to
\* the error handler
FetchFundsFail ==
  /\ pc = "validated"
  /\ \E status \in FetchErrorStatuses :
       response' = ErrorResponse(status, "upstream")
  /\ pc' = "done"
  /\ UNCHANGED <<rawBody, body, fundData, comparison, indexData, engineVars, serviceVars>>

\* from the data check to the call of the engine: an error response, or
\* what calculatePortfolioComparison returns or throws
CompareOutcome(b, cur, cmp) ==
  IF ~HasData(cur) \/ ~HasData(cmp)
  THEN ErrorResponse(404, "Fund data not found")
  ELSE IF Len(NavFiltered(b, cur)) = 0 \/ Len(NavFiltered(b, cmp)) = 0
  THEN ErrorResponse(400, "Insufficient data")
  ELSE calculatePortfolioComparison(FormatFund(cur, NavFiltered(b, cur)),
                                    FormatFund(cmp, NavFiltered(b, cmp)),
                                    b.investmentType, b.amount, b.startDate, EndDateOf(b))

IsErrorResponse(out) == "status" \in DOMAIN out

\* the data array of a cached response after the handler has filtered and
\* formatted it, had reverse() been applied to the array itself
dataAfterFormat_ReverseInPlace(data) == Reverse(data)

\* the data array of a cached response after the handler has filtered and
\* formatted it: filter and map return new arrays, reverse() is applied to
\* the array map returns, and split('-').reverse() to the array split returns
dataAfterFormat(data) == data

\* the cached response after filterNavData and the formatting
responseAfterFormat(resp) == [resp EXCEPT !.data = dataAfterFormat(@)]

\* the array handed to the engine, after calculatePortfolioComparison:
\* findNavOnDate sorts the copy [...navData], groupNavByMonth and calculateSIP
\* read the array, and the dates are copied by new Date(startDate)
navDataAfterComparison(nav) == nav

\* from the data check to the await of the index provider; an exception of
\* the engine reaches the error handler through asyncHandler.  fundData is
\* what the cache holds and navData the current fund's array the engine was
\* given, after the call.
Compare ==
  /\ pc = "fetched"
  /\ LET out == CompareOutcome(body, fundData[1], fundData[2])
     IN IF IsErrorResponse(out)
        THEN /\ response' = out
             /\ pc' = "done"
             /\ UNCHANGED <<comparison, fundData, navData>>
        ELSE /\ fundData' = <<responseAfterFormat(fundData[1]),
                              responseAfterFormat(fundData[2])>>
             /\ navData' = navDataAfterComparison(
                             FormatFund(fundData[1], CurrentNavFiltered).navData)
             /\ IF out.threw
                THEN /\ response' = ErrorResponse(500, "Something went wrong")
                     /\ pc' = "done"
                     /\ UNCHANGED comparison
                ELSE /\ comparison' = out
                     /\ pc' = "awaitIndex"
                     /\ UNCHANGED response
  /\ UNCHANGED <<rawBody, body, indexData, targetDate, ret, serviceVars>>

\* getIndexHistoricalData resolves; the index leg is computed, and left null
\* when its computation throws
IndexFetched ==
  /\ pc = "awaitIndex"
  /\ BenchmarkIndexOf(body) \in DOMAIN indexSymbols
  /\ \E data \in IndexHistories(BenchmarkIndexOf(body)) :
       /\ indexData' = [indexKey |-> BenchmarkIndexOf(body),
                        symbol |-> indexSymbols[BenchmarkIndexOf(body)],
                        period |-> calculatePeriodFromDates(body.startDate, EndDateOf(body)),
                        data |-> data]
       /\ LET computed == calculateIndexReturnsForPeriod(indexData', body.startDate,
                            EndDateOf(body), body.investmentType, body.amount)
          IN response' = CompareResponse(IF computed.threw THEN NullRef ELSE computed, indexData')
  /\ pc' = "done"
  /\ UNCHANGED <<rawBody, body, fundData, comparison, engineVars, serviceVars>>

\* a handler without the try/catch around the index leg
IndexFailed_Propagates ==
  /\ pc = "awaitIndex"
  /\ response' = ErrorResponse(500, "Something went wrong")
  /\ pc' = "done"
  /\ UNCHANGED <<rawBody, body, fundData, comparison, indexData, engineVars, serviceVars>>

\* getIndexHistoricalData rejects (unknown index key, request failure, no
\* chart in the answer): the catch block leaves the index leg null
IndexFailed ==
  /\ pc = "awaitIndex"
  /\ response' = CompareResponse(NullRef, NullRef)
  /\ pc' = "done"
  /\ UNCHANGED <<rawBody, body, fundData, comparison, indexData, engineVars, serviceVars>>

Init ==
  /\ navData = <<>>
  /\ targetDate = 0
  /\ ret = NoReturn
  /\ RouteIdle
  /\ ServicesIdle

Next ==
  \/ Receive
  \/ Validate
  \/ FetchFunds
  \/ FetchFundsFail
  \/ Compare
  \/ IndexFetched
  \/ IndexFailed

Spec == Init /\ [][Next]_vars

----------------------------------------------------------------------------
(* C1: findNavOnDate returns the price of the observation with the latest  *)
(* date on or before the target date, and the price of the earliest        *)
(* observation when no observation is dated on or before the target.       *)

OnOrBefore(nav, t) == {i \in 1..Len(nav) : NewDate(nav[i].date) <= t}

LatestOnOrBefore(nav, t) ==
  CHOOSE i \in OnOrBefore(nav, t) :
    \A j \in OnOrBefore(nav, t) : NewDate(nav[j].date) <= NewDate(nav[i].date)

Earliest(nav) ==
  CHOOSE i \in 1..Len(nav) :
    \A j \in 1..Len(nav) : NewDate(nav[i].date) <= NewDate(nav[j].date)

C1_FindNavOnDate ==
  ret.op = "findNavOnDate" =>
    IF OnOrBefore(navData, targetDate) # {}
    THEN ret.value = navData[LatestOnOrBefore(navData, targetDate)].nav
    ELSE ret.value = navData[Earliest(navData)].nav

\* an unsorted series, a target between two observations whose prices differ
C1_Witness ==
  /\ ret.op = "findNavOnDate"
  /\ Len(navData) = 3
  /\ NewDate(navData[1].date) > NewDate(navData[2].date)
  /\ OnOrBefore(navData, targetDate) # {}
  /\ OnOrBefore(navData, targetDate) # 1..Len(navData)
  /\ \E i \in 1..Len(navData) : navData[i].nav # ret.value
  /\ ToISODate(targetDate) \notin {navData[i].date : i \in 1..Len(navData)}

\* no observation on or before the target: the earliest price is returned
C1_WitnessFallback ==
  /\ ret.op = "findNavOnDate"
  /\ OnOrBefore(navData, targetDate) = {}
  /\ Len(navData) >= 2

----------------------------------------------------------------------------
(* C2: groupNavByMonth maps each calendar month with an observation to the *)
(* price of the earliest-dated observation of that month, whatever the     *)
(* order of the input array, and has no entry for any other month.         *)

MonthsOf(nav) == {MonthKey(NewDate(nav[i].date)) : i \in 1..Len(nav)}

EarliestOfMonth(nav, mk) ==
  CHOOSE i \in 1..Len(nav) :
    /\ MonthKey(NewDate(nav[i].date)) = mk
    /\ \A j \in 1..Len(nav) :
         MonthKey(NewDate(nav[j].date)) = mk => NewDate(nav[i].date) <= NewDate(nav[j].date)

MonthlyRepresentative(nav) ==
  [mk \in MonthsOf(nav) |-> nav[EarliestOfMonth(nav, mk)].nav]

C2_GroupNavByMonth ==
  ret.op = "groupNavByMonth" => ret.value = MonthlyRepresentative(navData)

\* the same statement of the static variant of the service
C2_GroupNavByMonthStatic ==
  ret.op = "groupNavByMonthStatic" => ret.value = MonthlyRepresentative(navData)

----------------------------------------------------------------------------
(* Vocabulary of the claims about a comparison *)

\* the window of the request
WindowStart == body.startDate
WindowEnd == IF EndDateOf(body) # Null THEN EndDateOf(body) ELSE Now

MonthIndex(mk) == mk[1] * 12 + mk[2]

\* the calendar months from startDate's month through endDate's month
WindowMonths ==
  {mk \in {<<y, m>> : y \in {2021}, m \in 1..12} :
     /\ MonthIndex(MonthKey(WindowStart)) <= MonthIndex(mk)
     /\ MonthIndex(mk) <= MonthIndex(MonthKey(WindowEnd))}

\* the series handed to the simulator
CurrentSeries == FormatFund(fundData[1], CurrentNavFiltered).navData
ComparisonSeries == FormatFund(fundData[2], ComparisonNavFiltered).navData

\* the simulation has run and its result is, or is about to be, returned
Simulated == pc \in {"awaitIndex", "done"} /\ comparison # NullRef

Responded(status) == pc = "done" /\ response.status = status

----------------------------------------------------------------------------
(* C3: when both series have an observation in every calendar month from   *)
(* startDate's month through endDate's month, a SIP buys exactly once in   *)
(* each of those months: totalInvested = amount x number of months.        *)

C3_OnePurchasePerMonth ==
  (/\ Simulated
   /\ body.investmentType = "sip"
   /\ WindowMonths \subseteq MonthsOf(CurrentSeries)
   /\ WindowMonths \subseteq MonthsOf(ComparisonSeries))
  => comparison.current.invested = body.amount * Cardinality(WindowMonths)

----------------------------------------------------------------------------
(* C4: in every SIP simulation a scheduled month without an observation    *)
(* contributes no units and no capital; no purchase is priced with an      *)
(* observation of another month or with a made-up price.                   *)

\* the dates a monthly schedule from start through end visits
RECURSIVE Schedule(_, _)
Schedule(current, end) ==
  IF ~(current <= end) THEN <<>>
  ELSE <<current>> \o Schedule(SetMonth(current, GetMonth(current) + 1), end)

C4_MissingMonthSkipped ==
  /\ (ret.op = "calculateSIPReturns" /\ ~ret.value.threw) =>
       \A k \in 1..Len(ret.value.monthlyData) :
         \E i \in 1..Len(navData) :
           /\ MonthKey(NewDate(navData[i].date)) = MonthKey(NewDate(ret.value.monthlyData[k].date))
           /\ navData[i].nav = ret.value.monthlyData[k].nav
  /\ (ret.op = "calculateIndexReturnsForPeriod" /\ ret.investmentType = "sip") =>
       LET scheduled == Schedule(targetDate, ret.endDate)
           priced == {k \in 1..Len(scheduled) : MonthKey(scheduled[k]) \in MonthsOf(navData)}
       IN ret.value.invested = ret.amount * Cardinality(priced)

----------------------------------------------------------------------------
(* C5: each fund's value is its units x the price of the observation with  *)
(* the greatest date in the fund's fetched series, also when the request's *)
(* endDate is earlier than that observation.                               *)

LatestFetchedNav(resp) ==
  LET i == CHOOSE i \in 1..Len(resp.data) :
             \A j \in 1..Len(resp.data) :
               NewDate(ReverseDate(resp.data[j].date)) <= NewDate(ReverseDate(resp.data[i].date))
  IN ParseFloat(resp.data[i].nav)

C5_ValuedAtLatestFetched ==
  Responded(200) =>
    /\ response.current.value =
         MathRound(RatMul(response.current.units, FromInt(LatestFetchedNav(fundData[1]))))
    /\ response.comparison.value =
         MathRound(RatMul(response.comparison.units, FromInt(LatestFetchedNav(fundData[2]))))

----------------------------------------------------------------------------
(* C6: the current fund's units, invested capital and value depend only on *)
(* the current fund's series: a comparison of the same request against any *)
(* other series of the comparison fund reports the same current leg.       *)

C6_CurrentIndependentOfComparison ==
  Simulated =>
    \A alt \in FundResponses(body.comparisonFundCode) :
      LET other == CompareOutcome(body, fundData[1], alt)
      IN (~IsErrorResponse(other) /\ ~other.threw) =>
           /\ other.current.units = comparison.current.units
           /\ other.current.invested = comparison.current.invested
           /\ other.current.value = comparison.current.value

----------------------------------------------------------------------------
(* C7: a SIP simulation in which no scheduled month yields a price fails;  *)
(* no result with zero units and zero invested capital is returned.        *)

C7_NoEmptySIPResult ==
  (Responded(200) /\ body.investmentType = "sip") =>
    ~(response.current.units = FromInt(0) /\ response.current.invested = 0)

----------------------------------------------------------------------------
(* C8: when either primary fund has no price data to simulate with (no     *)
(* data array, no observation in the window, no price for a lump sum) the  *)
(* comparison is answered with an error, and no successful response holds  *)
(* a computed leg for only one of the two funds.                           *)

LacksData(resp) ==
  \/ ~HasData(resp)
  \/ Len(NavFiltered(body, resp)) = 0
  \/ (body.investmentType = "lump" /\
      Falsy(findNavOnDate(FormatFund(resp, NavFiltered(body, resp)).navData, body.startDate)))

C8_WitnessSIP ==
  /\ Responded(200)
  /\ body.investmentType = "sip"
  /\ MonthsOf(CurrentSeries) # MonthsOf(ComparisonSeries)
  /\ response.current.units.num > 0
  /\ response.comparison.units.num > 0

----------------------------------------------------------------------------
(* C9: when the benchmark provider call fails, or the benchmark            *)
(* computation throws, a comparison whose fund legs succeeded is answered  *)
(* with status 200, the complete two-fund result and a null index.         *)

BenchmarkFailed == indexData = NullRef \/ Len(indexData.data) = 0

C9_BenchmarkFailureDegrades ==
  (pc = "done" /\ comparison # NullRef /\ BenchmarkFailed) =>
    /\ response.status = 200
    /\ response.index = NullRef
    /\ response.current = comparison.current
    /\ response.comparison = comparison.comparison
    /\ response.difference = comparison.difference
    /\ response.percentageDifference = comparison.percentageDifference
    /\ response.chartData = comparison.chartData

\* the provider call failed after both legs were computed
C9_Witness ==
  /\ pc = "done"
  /\ comparison # NullRef
  /\ indexData = NullRef
  /\ response.status = 200
  /\ response.current.units.num > 0

\* the provider answered with an empty chart: the computation threw
C9_WitnessThrow ==
  /\ pc = "done"
  /\ comparison # NullRef
  /\ indexData # NullRef
  /\ Len(indexData.data) = 0
  /\ response.status = 200

----------------------------------------------------------------------------
(* C10: when the request supplies a benchmark key, the benchmark leg of    *)
(* the result is that of the supplied benchmark.                           *)

C10_SuppliedBenchmarkUsed ==
  (/\ Responded(200)
   /\ "benchmarkIndex" \in DOMAIN rawBody
   /\ response.index # NullRef)
  => response.index.benchmarkIndex = rawBody.benchmarkIndex

----------------------------------------------------------------------------
(* C11: when the benchmark's price series is identical to a fund's fetched *)
(* price series, the benchmark leg of the result reports the same invested *)
(* capital, units and current value as that fund's leg.                    *)

\* the benchmark's chart as a series of dated prices
IndexSeries == [i \in 1..Len(indexData.data) |->
                  [date |-> indexData.data[i].date, nav |-> indexData.data[i].close]]

\* a fund's fetched series, earliest first
FetchedSeries(resp) == FormatFund(resp, resp.data).navData

SameLeg(index, leg) ==
  /\ index.invested = leg.invested
  /\ index.units = leg.units
  /\ index.currentValue = leg.value

C11_BenchmarkLegMatchesFundLeg ==
  (Responded(200) /\ response.index # NullRef) =>
    /\ IndexSeries = FetchedSeries(fundData[1]) => SameLeg(response.index, response.current)
    /\ IndexSeries = FetchedSeries(fundData[2]) => SameLeg(response.index, response.comparison)

----------------------------------------------------------------------------
(* Results view: components/FundAnalysis.js *)

\* fund1 is the current fund, fund2 the comparison fund; indexValue is
\* response.index?.currentValue, undefined (Null) without a benchmark leg
getBestPerformer(fund1Value, fund2Value, indexValue) ==
  IF Falsy(indexValue)
  THEN (IF fund1Value > fund2Value THEN "fund1" ELSE "fund2")
  ELSE
    LET afterFund2 == IF fund2Value > fund1Value
                      THEN [name |-> "fund2", value |-> fund2Value]
                      ELSE [name |-> "fund1", value |-> fund1Value]
        afterIndex == IF indexValue > afterFund2.value
                      THEN [name |-> "index", value |-> indexValue]
                      ELSE afterFund2
    IN afterIndex.name

\* final values of the participants
FinalValues == {0, 100, 105, 200}

GetBestPerformerCall ==
  /\ ret = NoReturn
  /\ \E fund1Value \in FinalValues, fund2Value \in FinalValues,
        indexValue \in FinalValues \cup {Null} :
       ret' = [op |-> "getBestPerformer",
               fund1Value |-> fund1Value, fund2Value |-> fund2Value, indexValue |-> indexValue,
               value |-> getBestPerformer(fund1Value, fund2Value, indexValue)]
  /\ UNCHANGED <<navData, targetDate, routeVars, serviceVars>>

----------------------------------------------------------------------------
(* Comparisons over long windows: calculationService.js *)

\* the months of a window: the n-th month after January 2021, n >= 0
MonthAfter(n) == <<2021 + (n \div 12), 1 + (n % 12)>>

LastDayOf(mk) == <<mk[1], mk[2], DaysInMonth(mk[1], mk[2])>>

\* a fund observed on the last day of each of the first n months, except the
\* months in skipped; the price of every observation is nav
MonthEndFund(name, n, skipped, nav) ==
  [fundName |-> name,
   navData |-> [i \in 1..Len(SelectSeq([k \in 1..n |-> k - 1], LAMBDA k : k \notin skipped)) |->
                  [date |-> LastDayOf(MonthAfter(
                              SelectSeq([k \in 1..n |-> k - 1], LAMBDA k : k \notin skipped)[i])),
                   nav |-> nav]]]

StartDays == {15, 31}

\* amounts of the comparisons: a round one and one whose units are fractional
ComparisonAmounts == {100, 105}

\* a fund observed at the end of January and of February 2021
TwoMonthFunds(name) ==
  {[fundName |-> name,
    navData |-> <<[date |-> <<2021, 1, 31>>, nav |-> a], [date |-> <<2021, 2, 28>>, nav |-> b]>>] :
     a \in NavValues, b \in NavValues}

\* a comparison over January and February 2021
CalculatePortfolioComparisonCall ==
  /\ ret = NoReturn
  /\ \E currentFund \in TwoMonthFunds("current"), comparisonFund \in TwoMonthFunds("comparison"),
        investmentType \in {"sip", "lump"}, amount \in ComparisonAmounts, day \in StartDays :
       LET startDate == NewDate(<<2021, 1, day>>)
           endDate == NewDate(<<2021, 2, 28>>)
       IN ret' = [op |-> "calculatePortfolioComparison",
                  currentFund |-> currentFund, comparisonFund |-> comparisonFund,
                  investmentType |-> investmentType, amount |-> amount,
                  startDate |-> startDate, endDate |-> endDate,
                  value |-> calculatePortfolioComparison(currentFund, comparisonFund,
                              investmentType, amount, startDate, endDate)]
  /\ UNCHANGED <<navData, targetDate, routeVars, serviceVars>>

\* the same comparison by the static variant of the service
CalculatePortfolioComparisonStaticCall ==
  /\ ret = NoReturn
  /\ \E currentFund \in TwoMonthFunds("current"), comparisonFund \in TwoMonthFunds("comparison"),
        investmentType \in {"sip", "lump"}, amount \in ComparisonAmounts, day \in StartDays :
       LET startDate == NewDate(<<2021, 1, day>>)
           endDate == NewDate(<<2021, 2, 28>>)
       IN ret' = [op |-> "calculatePortfolioComparisonStatic",
                  currentFund |-> currentFund, comparisonFund |-> comparisonFund,
                  investmentType |-> investmentType, amount |-> amount,
                  startDate |-> startDate, endDate |-> endDate,
                  value |-> calculatePortfolioComparisonStatic(currentFund, comparisonFund,
                              investmentType, amount, startDate, endDate)]
  /\ UNCHANGED <<navData, targetDate, routeVars, serviceVars>>

\* calculatePortfolioComparison of a SIP enters calculateSIP
CalculateSIPEnter ==
  /\ ret = NoReturn
  /\ \E n \in 23..(24 + MaxExtraMonths), day \in StartDays, skipped \in {{}, {1}},
        amount \in ComparisonAmounts :
       ret' = [op |-> "calculateSIP",
               currentFund |-> MonthEndFund("current", n, {}, 10),
               comparisonFund |-> MonthEndFund("comparison", n, skipped, 20),
               amount |-> amount,
               startDate |-> NewDate(<<2021, 1, day>>),
               endDate |-> NewDate(LastDayOf(MonthAfter(n - 1))),
               current |-> NewDate(<<2021, 1, day>>),
               acc |-> calculateSIPStart]
  /\ UNCHANGED <<navData, targetDate, routeVars, serviceVars>>

\* one turn of the while loop
CalculateSIPIterate ==
  /\ ret.op = "calculateSIP"
  /\ ret.current <= ret.endDate
  /\ ret' = [ret EXCEPT
               !.acc = calculateSIPStep(groupNavByMonth(ret.currentFund.navData),
                                        groupNavByMonth(ret.comparisonFund.navData),
                                        ret.amount, ret.current, ret.acc),
               !.current = SetMonth(ret.current, GetMonth(ret.current) + 1)]
  /\ UNCHANGED <<navData, targetDate, routeVars, serviceVars>>

\* the loop is left and calculatePortfolioComparison returns its result
CalculateSIPReturn ==
  /\ ret.op = "calculateSIP"
  /\ ~(ret.current <= ret.endDate)
  /\ ret' = [op |-> "calculatePortfolioComparison",
             currentFund |-> ret.currentFund, comparisonFund |-> ret.comparisonFund,
             investmentType |-> "sip", amount |-> ret.amount,
             startDate |-> ret.startDate, endDate |-> ret.endDate,
             value |-> comparisonResult(ret.currentFund, ret.comparisonFund, ret.acc)]
  /\ UNCHANGED <<navData, targetDate, routeVars, serviceVars>>

----------------------------------------------------------------------------
(* The XIRR solver: calculateXIRR of calculationService.js                 *)
(*                                                                         *)
(* The rates are floating point numbers: the model names them by their    *)
(* place in the Newton-Raphson sequence, rate 0 being the initial guess    *)
(* 0.1 and rate k + 1 the result of rate = rate - npv / dnpv on rate k,   *)
(* and leaves open whether the net present value at a rate is within the  *)
(* tolerance.                                                              *)

maxIterations == 100

\* the lengths of the arrays the callers pass
ArrayLengths == 0..3

\* a loop that also runs for i = maxIterations
xirrLoopCondition_Inclusive(i) == i <= maxIterations

\* i < maxIterations
xirrLoopCondition(i) == i < maxIterations

\* what calculateSIPReturns builds from the number calculateXIRR returns
AnnualizedOutput(rate) == [annualizedReturn |-> rate]

XIRRReturn(r, rate, withinTolerance) ==
  [r EXCEPT !.pc = "returned", !.withinTolerance = withinTolerance,
            !.value = rate, !.output = AnnualizedOutput(rate)]

\* the length check, and let rate = 0.1
CalculateXIRREnter ==
  /\ ret = NoReturn
  /\ \E cashFlows \in ArrayLengths, dates \in ArrayLengths :
       LET frame == [op |-> "calculateXIRR", pc |-> "loop", cashFlows |-> cashFlows,
                     dates |-> dates, i |-> 0, rate |-> [iterate |-> 0],
                     withinTolerance |-> FALSE, value |-> NullRef, output |-> NullRef]
       IN IF cashFlows # dates \/ cashFlows < 2
          THEN ret' = XIRRReturn(frame, [zero |-> TRUE], FALSE)
          ELSE ret' = frame
  /\ UNCHANGED <<navData, targetDate, routeVars, serviceVars>>

\* one turn of the for loop: the net present value at the rate is within
\* the tolerance and the rate is returned, or the rate is updated
CalculateXIRRIterate ==
  /\ ret.op = "calculateXIRR"
  /\ ret.pc = "loop"
  /\ xirrLoopCondition(ret.i)
  /\ \E withinTolerance \in BOOLEAN :
       IF withinTolerance
       THEN ret' = XIRRReturn(ret, ret.rate, TRUE)
       ELSE ret' = [ret EXCEPT !.rate = [iterate |-> ret.rate.iterate + 1], !.i = ret.i + 1]
  /\ UNCHANGED <<navData, targetDate, routeVars, serviceVars>>

\* the loop is left: return rate * 100
CalculateXIRRExhausted ==
  /\ ret.op = "calculateXIRR"
  /\ ret.pc = "loop"
  /\ ~xirrLoopCondition(ret.i)
  /\ ret' = XIRRReturn(ret, ret.rate, FALSE)
  /\ UNCHANGED <<navData, targetDate, routeVars, serviceVars>>

----------------------------------------------------------------------------
(* Risk metrics: calculationService.js                                     *)
(*                                                                         *)
(* A volatility is indexData.metrics.volatility, a percentage with two     *)
(* decimals, in hundredths; Null stands for a rejected call of             *)
(* getIndexHistoricalData.                                                 *)

RatMin(a, b) == IF RatLess(b, a) THEN b ELSE a

RatMax(a, b) == IF RatLess(a, b) THEN b ELSE a

\* the quotient 0 / 0
NaNRat == [num |-> 0, den |-> 0]

IsNaN(x) == x.den = 0

categoryBenchmarks ==
  [c \in {"Large Cap", "Mid Cap", "Small Cap", "Flexi Cap", "Index", "Debt", "Hybrid",
          "ELSS", "Sectoral/Thematic", "Banking", "IT"} |->
     CASE c \in {"Large Cap", "Index", "Hybrid", "ELSS"} -> "nifty50"
       [] c = "Mid Cap" -> "niftymidcap"
       [] c = "Small Cap" -> "niftysmallcap"
       [] c \in {"Flexi Cap", "Sectoral/Thematic"} -> "nifty500"
       [] c = "Banking" -> "niftybank"
       [] c = "IT" -> "niftyit"
       [] OTHER -> "null"]

\* in halves
categoryAdjustments ==
  [c \in {"Large Cap", "Mid Cap", "Small Cap", "Flexi Cap", "Index", "Hybrid", "ELSS",
          "Sectoral/Thematic", "Banking", "IT"} |->
     CASE c = "Large Cap" -> 0
       [] c = "Mid Cap" -> 2
       [] c = "Small Cap" -> 4
       [] c = "Index" -> 0 - 1
       [] c = "Hybrid" -> 0 - 2
       [] c = "Sectoral/Thematic" -> 3
       [] OTHER -> 1]

\* the categories categorizeScheme and the fallbacks produce, and one named
\* after bonds
Categories == (DOMAIN categoryBenchmarks) \cup {"Equity", "Unknown", "Corporate Bond"}

\* category.toLowerCase().includes('debt') || ...includes('bond')
NamesDebt(category) == category \in {"Debt", "Corporate Bond"}

BenchmarkOfCategory(category) ==
  IF category \in DOMAIN categoryBenchmarks THEN categoryBenchmarks[category] ELSE "null"

\* the score of a volatility before the adjustment, the third band starting
\* at 3
bandScore_LowThirdBand(volatility) ==
  IF volatility < 1000 THEN RatAdd(FromInt(1), Rat(volatility, 1000))
  ELSE IF volatility < 2000 THEN RatAdd(FromInt(2), Rat((volatility - 1000) * 2, 1000))
  ELSE IF volatility < 3000 THEN RatAdd(FromInt(3), Rat((volatility - 2000) * 2, 1000))
  ELSE RatMin(FromInt(10), RatAdd(FromInt(6), Rat((volatility - 3000) * 4, 1000)))

\* the score of a volatility before the adjustment
bandScore(volatility) ==
  IF volatility < 1000 THEN RatAdd(FromInt(1), Rat(volatility, 1000))
  ELSE IF volatility < 2000 THEN RatAdd(FromInt(2), Rat((volatility - 1000) * 2, 1000))
  ELSE IF volatility < 3000 THEN RatAdd(FromInt(4), Rat((volatility - 2000) * 2, 1000))
  ELSE RatMin(FromInt(10), RatAdd(FromInt(6), Rat((volatility - 3000) * 4, 1000)))

\* volatility: that of the category's benchmark index
getRiskScoreByCategory(category, volatility) ==
  IF BenchmarkOfCategory(category) = "null"
  THEN [threw |-> FALSE, score |-> IF NamesDebt(category) THEN FromInt(1) ELSE FromInt(3)]
  ELSE IF Falsy(volatility)
  THEN Threw("Unable to calculate risk score")
  ELSE
    LET adjustment == IF category \in DOMAIN categoryAdjustments
                      THEN Rat(categoryAdjustments[category], 2) ELSE FromInt(0)
    IN [threw |-> FALSE,
        score |-> RatMax(FromInt(1), RatMin(FromInt(10),
                    RatAdd(bandScore(volatility), adjustment)))]

\* volatilities from 0 to 60 per cent, and those next to the band boundaries
Volatilities ==
  {125 * k : k \in 0..48} \cup {1, 999, 1001, 1999, 2001, 2999, 3001, 3999, 4001}

GetRiskScoreByCategoryCall ==
  /\ ret = NoReturn
  /\ \E category \in Categories, volatility \in Volatilities \cup {Null} :
       ret' = [op |-> "getRiskScoreByCategory", category |-> category,
               volatility |-> volatility,
               value |-> getRiskScoreByCategory(category, volatility)]
  /\ UNCHANGED <<navData, targetDate, routeVars, serviceVars>>

\* numbers that may be NaN
NumAdd(a, b) == IF IsNaN(a) \/ IsNaN(b) THEN NaNRat ELSE RatAdd(a, b)

NumMul(a, b) == IF IsNaN(a) \/ IsNaN(b) THEN NaNRat ELSE RatMul(a, b)

\* part / total of invested amounts, none negative: 0 / 0 is NaN
Weight(part, total) == IF total = 0 THEN NaNRat ELSE Rat(part, total)

\* Math.round(x * 100) / 100
RoundToHundredths(x) == IF IsNaN(x) THEN NaNRat ELSE Rat(RoundDiv(x.num * 100, x.den), 100)

\* every comparison with NaN is false
mapRiskScoreToLevel(riskScore) ==
  IF IsNaN(riskScore) THEN "Very High"
  ELSE IF ~RatLess(FromInt(2), riskScore) THEN "Low"
  ELSE IF ~RatLess(FromInt(4), riskScore) THEN "Moderate"
  ELSE IF ~RatLess(FromInt(6), riskScore) THEN "High"
  ELSE "Very High"

getBenchmarkForCategory(category) ==
  CASE category \in {"Large Cap", "Index"} -> "nifty50"
    [] category = "Mid Cap" -> "niftymidcap"
    [] category = "Small Cap" -> "niftysmallcap"
    [] category = "IT" -> "niftyit"
    [] category = "Bank" -> "niftybank"
    [] OTHER -> "nifty50"

riskScores ==
  [c \in {"Large Cap", "Mid Cap", "Small Cap", "Debt", "Hybrid", "Index", "ELSS",
          "Sectoral/Thematic"} |->
     CASE c \in {"Large Cap", "Index"} -> 2
       [] c \in {"Mid Cap", "ELSS"} -> 4
       [] c = "Small Cap" -> 6
       [] c = "Debt" -> 1
       [] c = "Hybrid" -> 3
       [] OTHER -> 7]

RECURSIVE SumInvested(_)
SumInvested(funds) ==
  IF funds = <<>> THEN 0 ELSE Head(funds).totalInvested + SumInvested(Tail(funds))

\* volatilityOf: the volatility getIndexHistoricalData reports for each index,
\* Null where the call is rejected
VolatilityOfCategory(category, volatilityOf) ==
  IF BenchmarkOfCategory(category) = "null" THEN Null
  ELSE volatilityOf[BenchmarkOfCategory(category)]

\* the loop of the try block, from the fund at position k
RECURSIVE weightedRiskFrom(_, _, _, _, _)
weightedRiskFrom(funds, volatilityOf, totalInvested, k, weightedRisk) ==
  IF k > Len(funds) THEN [threw |-> FALSE, value |-> weightedRisk]
  ELSE
    LET fundRisk == getRiskScoreByCategory(funds[k].category,
                      VolatilityOfCategory(funds[k].category, volatilityOf))
        weight == Weight(funds[k].totalInvested, totalInvested)
    IN IF fundRisk.threw THEN fundRisk
       ELSE weightedRiskFrom(funds, volatilityOf, totalInvested, k + 1,
              NumAdd(weightedRisk, NumMul(fundRisk.score, weight)))

\* calculatePortfolioVolatility throws when an index has no volatility
portfolioVolatilityThrows(funds, volatilityOf) ==
  \E k \in DOMAIN funds : Falsy(volatilityOf[getBenchmarkForCategory(funds[k].category)])

\* the reduce of the catch block
RECURSIVE staticWeightedRiskFrom(_, _, _)
staticWeightedRiskFrom(funds, k, risk) ==
  IF k > Len(funds) THEN risk
  ELSE
    LET fundRisk == IF funds[k].category \in DOMAIN riskScores
                    THEN riskScores[funds[k].category] ELSE 3
        weight == Weight(funds[k].totalInvested, SumInvested(funds))
    IN staticWeightedRiskFrom(funds, k + 1, NumAdd(risk, NumMul(FromInt(fundRisk), weight)))

\* indexDataService.getIndexQuote('10yr_bond').yield in hundredths, Null when
\* the call is rejected or the quote has no yield
BondYields == {Null, 700}

\* in hundredths
getRiskFreeRate(bondYield) == IF Falsy(bondYield) THEN 650 ELSE bondYield

\* the sum under the square root of calculatePortfolioVolatility, from the
\* fund at position k, the volatilities in hundredths: the caller has
\* excluded the throwing case
RECURSIVE portfolioVolatilityFrom(_, _, _, _, _)
portfolioVolatilityFrom(funds, volatilityOf, totalInvested, k, portfolioVolatility) ==
  IF k > Len(funds) THEN portfolioVolatility
  ELSE
    LET weight == Weight(funds[k].totalInvested, totalInvested)
        fundVolatility == volatilityOf[getBenchmarkForCategory(funds[k].category)]
    IN portfolioVolatilityFrom(funds, volatilityOf, totalInvested, k + 1,
         NumAdd(portfolioVolatility,
                NumMul(NumMul(weight, weight), FromInt(fundVolatility * fundVolatility))))

\* (avgReturn - riskFreeRate) / volatility as JavaScript divides: excess is
\* the sign of avgReturn - riskFreeRate, a finite number, and the volatility
\* is given by its square
sharpeRatioOf(excess, volatilitySquared) ==
  IF IsNaN(volatilitySquared) THEN "NaN"
  ELSE IF volatilitySquared.num = 0
  THEN (IF excess = 0 THEN "NaN" ELSE IF excess > 0 THEN "Infinity" ELSE "-Infinity")
  ELSE "number"

\* the object either block returns
riskResult(weightedRisk, volatilitySquared, excess, bondYield, dynamic) ==
  [threw |-> FALSE,
   riskLevel |-> mapRiskScoreToLevel(weightedRisk),
   riskScore |-> RoundToHundredths(weightedRisk),
   volatilitySquared |-> volatilitySquared,
   sharpeRatio |-> sharpeRatioOf(excess, volatilitySquared),
   riskFreeRate |-> getRiskFreeRate(bondYield),
   dynamic |-> dynamic]

\* the catch block
calculatePortfolioRiskFallback(weightedRisk, excess, bondYield) ==
  riskResult(weightedRisk, NumMul(FromInt(25 * 100 * 100), weightedRisk), excess, bondYield,
             FALSE)

\* the result; dynamic tells the try block from the catch block, and the
\* volatility Math.sqrt returns is kept as its square, in hundredths squared.  excess is the sign
\* of the funds' average annualizedReturn less the risk-free rate.
calculatePortfolioRiskOf(funds, volatilityOf, excess, bondYield, dynamicRisk) ==
  IF ~dynamicRisk.threw /\ ~portfolioVolatilityThrows(funds, volatilityOf)
  THEN riskResult(dynamicRisk.value,
                  portfolioVolatilityFrom(funds, volatilityOf, SumInvested(funds), 1, FromInt(0)),
                  excess, bondYield, TRUE)
  ELSE calculatePortfolioRiskFallback(staticWeightedRiskFrom(funds, 1, FromInt(0)),
                                      excess, bondYield)

calculatePortfolioRisk(funds, volatilityOf, excess, bondYield) ==
  calculatePortfolioRiskOf(funds, volatilityOf, excess, bondYield,
    weightedRiskFrom(funds, volatilityOf, SumInvested(funds), 1, FromInt(0)))

FundCategories == {"Large Cap", "Small Cap", "Debt", "Equity"}

\* totalInvested of calculateSIPReturns: 0 when the fund's monthly amount
\* rounds to 0
InvestedTotals == {0, 1200, 2400}

RiskFunds == [category : FundCategories, totalInvested : InvestedTotals]

\* 10.01 per cent is next to the boundary of a band
IndexVolatilities == [{"nifty50", "niftysmallcap"} -> {Null, 1001, 1500, 3500}]

ExcessSigns == {0 - 1, 0, 1}

CalculatePortfolioRiskCall ==
  /\ ret = NoReturn
  /\ \E funds \in {<<f>> : f \in RiskFunds} \cup {<<f, g>> : f, g \in RiskFunds},
        volatilityOf \in IndexVolatilities, excess \in ExcessSigns,
        bondYield \in BondYields :
       ret' = [op |-> "calculatePortfolioRisk", funds |-> funds,
               volatilityOf |-> volatilityOf, excess |-> excess, bondYield |-> bondYield,
               value |-> calculatePortfolioRisk(funds, volatilityOf, excess, bondYield)]
  /\ UNCHANGED <<navData, targetDate, routeVars, serviceVars>>

----------------------------------------------------------------------------
(* Function specification: one function of the services or of the results  *)
(* view is applied to arguments the callers pass                           *)

FunctionNext ==
  \/ GetBestPerformerCall
  \/ CalculatePortfolioComparisonCall
  \/ CalculatePortfolioComparisonStaticCall
  \/ CalculateSIPEnter
  \/ CalculateSIPIterate
  \/ CalculateSIPReturn
  \/ CalculateXIRREnter
  \/ CalculateXIRRIterate
  \/ CalculateXIRRExhausted
  \/ GetRiskScoreByCategoryCall
  \/ CalculatePortfolioRiskCall

FunctionSpec == Init /\ [][FunctionNext]_vars

\* a call that has started runs on: the event loop runs a synchronous
\* function to its end
FairFunctionSpec ==
  /\ FunctionSpec
  /\ WF_vars(CalculateXIRRIterate)
  /\ WF_vars(CalculateXIRRExhausted)

----------------------------------------------------------------------------
(* C12: bestPerformer names a participant whose final value is the largest *)
(* among those present (current, comparison and, with a benchmark leg, the *)
(* benchmark), and names current whenever current has the largest value.   *)

ParticipantValue(r, name) ==
  IF name = "fund1" THEN r.fund1Value
  ELSE IF name = "fund2" THEN r.fund2Value
  ELSE r.indexValue

Participants(r) == {"fund1", "fund2"} \cup (IF r.indexValue # Null THEN {"index"} ELSE {})

C12_BestPerformerIsLargest ==
  ret.op = "getBestPerformer" =>
    /\ ret.value \in Participants(ret)
    /\ \A p \in Participants(ret) : ParticipantValue(ret, ret.value) >= ParticipantValue(ret, p)
    /\ (\A p \in Participants(ret) : ret.fund1Value >= ParticipantValue(ret, p))
         => ret.value = "fund1"

----------------------------------------------------------------------------
(* C13: the chartData of a SIP comparison holds one point per calendar     *)
(* month of the window that is present in both funds' series, in           *)
(* chronological order, cut to the 24 most recent of them.                 *)

\* the months from index a through index b that both series observe
RECURSIVE CommonMonths(_, _, _, _)
CommonMonths(currentNav, comparisonNav, a, b) ==
  IF a > b THEN <<>>
  ELSE (IF /\ MonthAfter(a) \in MonthsOf(currentNav)
           /\ MonthAfter(a) \in MonthsOf(comparisonNav)
        THEN <<MonthAfter(a)>> ELSE <<>>)
       \o CommonMonths(currentNav, comparisonNav, a + 1, b)

\* the index of a month counted from January 2021
MonthNumber(d) == MonthIndex(MonthKey(d)) - MonthIndex(<<2021, 1>>)

C13_ChartPointPerCommonMonth ==
  (ret.op = "calculatePortfolioComparison" /\ ret.investmentType = "sip" /\ ~ret.value.threw) =>
    [i \in 1..Len(ret.value.chartData) |-> ret.value.chartData[i].date]
      = LastN(CommonMonths(ret.currentFund.navData, ret.comparisonFund.navData,
                           MonthNumber(ret.startDate), MonthNumber(ret.endDate)), 24)

----------------------------------------------------------------------------
(* C14: percentageDifference is the difference of the two funds' values    *)
(* divided by the shared invested total, times 100, to two decimals, in    *)
(* the result of either variant of the service.                            *)

IsComparisonResult ==
  /\ ret.op \in {"calculatePortfolioComparison", "calculatePortfolioComparisonStatic"}
  /\ ~ret.value.threw

\* the value of a leg before rounding
LegValue(leg) == RatMul(leg.units, FromInt(leg.latestNav))

\* (comparison value - current value) / invested * 100, in hundredths
RelativeToInvested(result) ==
  LET delta == RatSub(LegValue(result.comparison), LegValue(result.current))
  IN FixedDiv(delta.num * 10000, delta.den * result.current.invested)

C14_PercentageOfInvested ==
  (IsComparisonResult /\ ret.value.current.invested > 0) =>
    ret.value.percentageDifference = RelativeToInvested(ret.value)

----------------------------------------------------------------------------
(* C15: the reported difference is the reported comparison value minus the *)
(* reported current value.                                                 *)

C15_DifferenceOfReportedValues ==
  IsComparisonResult =>
    ret.value.difference = ret.value.comparison.value - ret.value.current.value

----------------------------------------------------------------------------
(* C16: the cash flows calculateSIPReturns passes to calculateXIRR are     *)
(* paired one to one with the dates, the dates ascend from the first       *)
(* contribution, every contribution is negative, and the last cash flow is *)
(* the one positive inflow, the current value, dated now.                  *)

C16_XIRRArguments ==
  (ret.op = "calculateSIPReturns" /\ ~ret.value.threw) =>
    LET cashFlows == ret.value.cashFlows
        dates == ret.value.dates
        n == Len(cashFlows)
    IN /\ Len(dates) = n
       /\ n = ret.duration + 1
       /\ \A i \in 1..(n - 1) : dates[i] <= dates[i + 1]
       /\ dates[1] = NewDate(ToISODate(targetDate))
       /\ \A i \in 1..(n - 1) : cashFlows[i].num < 0
       /\ cashFlows[n].num > 0
       /\ MathRound(cashFlows[n]) = ret.value.currentValue
       /\ dates[n] = Now

----------------------------------------------------------------------------
(* C17: calculateXIRR terminates on every input: it makes at most 100      *)
(* Newton-Raphson iterations and returns the rate at which the net present *)
(* value is within the tolerance or, after the 100th iteration, the last   *)
(* computed rate.                                                          *)

InXIRR == ret.op = "calculateXIRR"

XIRRReturned == InXIRR /\ ret.pc = "returned"

\* the loop was entered: the arrays pass the length check
XIRRSolved == XIRRReturned /\ ret.cashFlows = ret.dates /\ ret.cashFlows >= 2

XIRRBounded ==
  InXIRR =>
    /\ ret.i <= 100
    /\ ret.rate.iterate = ret.i
    /\ XIRRSolved =>
         \/ ret.withinTolerance /\ ret.i < 100 /\ ret.value = [iterate |-> ret.i]
         \/ ~ret.withinTolerance /\ ret.i = 100 /\ ret.value = [iterate |-> 100]

C17_XIRRTerminates == [](XIRRBounded) /\ (InXIRR ~> XIRRReturned)

\* a run that never came within the tolerance
C17_Witness == XIRRSolved /\ ret.i = 100 /\ ~ret.withinTolerance

\* a run that converged after some updates of the rate
C17_WitnessConverged == XIRRSolved /\ ret.withinTolerance /\ ret.i = 99

----------------------------------------------------------------------------
(* C18: when calculateXIRR stops at its iteration cap, the output handed   *)
(* to the caller marks the annualized return as approximate.               *)

C18_CappedIsMarkedApproximate ==
  (XIRRSolved /\ ~ret.withinTolerance) =>
    /\ "approximate" \in DOMAIN ret.output
    /\ ret.output.approximate = TRUE

----------------------------------------------------------------------------
(* C19: for a fixed category the risk score does not decrease when the     *)
(* benchmark volatility increases, across the band boundaries and after    *)
(* the category adjustment and the clamp.                                  *)

Scored == ret.op = "getRiskScoreByCategory" /\ ~ret.value.threw

C19_RiskScoreMonotone ==
  Scored =>
    \A higher \in Volatilities :
      LET other == getRiskScoreByCategory(ret.category, higher)
      IN (ret.volatility # Null /\ ret.volatility <= higher /\ ~other.threw)
           => ~RatLess(other.score, ret.value.score)

\* a volatility just below a band boundary, scored from the index data
C19_Witness ==
  /\ Scored
  /\ BenchmarkOfCategory(ret.category) # "null"
  /\ ret.volatility = 1999
  /\ RatLess(ret.value.score, getRiskScoreByCategory(ret.category, 2001).score)

----------------------------------------------------------------------------
(* C20: every risk score lies in [1, 10]: the score of a category, and     *)
(* the riskScore calculatePortfolioRisk reports for a non-empty list of    *)
(* funds whose invested amounts are not negative.                          *)

InScoreRange(x) == ~IsNaN(x) /\ ~RatLess(x, FromInt(1)) /\ ~RatLess(FromInt(10), x)

C20_RiskScoresInRange ==
  /\ Scored => InScoreRange(ret.value.score)
  /\ ret.op = "calculatePortfolioRisk" => InScoreRange(ret.value.riskScore)


----------------------------------------------------------------------------
(* C21: in every result of calculatePortfolioRisk the riskLevel is the     *)
(* banding of the riskScore of that same result: Low up to 2, Moderate up  *)
(* to 4, High up to 6, Very High otherwise.                                *)

C21_RiskLevelBandsReportedScore ==
  ret.op = "calculatePortfolioRisk" =>
    ret.value.riskLevel = mapRiskScoreToLevel(ret.value.riskScore)

----------------------------------------------------------------------------
(* C22: a result of calculatePortfolioRisk whose volatility is 0 has a     *)
(* null Sharpe ratio, and no result has a Sharpe ratio that is Infinity    *)
(* or NaN.                                                                 *)

C22_SharpeNullOnZeroVolatility ==
  ret.op = "calculatePortfolioRisk" =>
    /\ (~IsNaN(ret.value.volatilitySquared) /\ ret.value.volatilitySquared.num = 0)
         => ret.value.sharpeRatio = "null"
    /\ ret.value.sharpeRatio \notin {"NaN", "Infinity", "-Infinity"}

----------------------------------------------------------------------------
(* C23: when the volatility of a benchmark index a fund needs is missing,  *)
(* or the bond quote is, calculatePortfolioRisk fails with an error: it    *)
(* returns no metrics computed from the static scores or from the default  *)
(* risk-free rate.                                                         *)

BenchmarkDataMissing(funds, volatilityOf, bondYield) ==
  \/ Falsy(bondYield)
  \/ \E k \in DOMAIN funds :
       \/ Falsy(volatilityOf[getBenchmarkForCategory(funds[k].category)])
       \/ /\ BenchmarkOfCategory(funds[k].category) # "null"
          /\ Falsy(volatilityOf[BenchmarkOfCategory(funds[k].category)])

C23_MissingBenchmarkFails ==
  (/\ ret.op = "calculatePortfolioRisk"
   /\ BenchmarkDataMissing(ret.funds, ret.volatilityOf, ret.bondYield))
    => ret.value.threw


----------------------------------------------------------------------------
(* C24: a comparison request whose amount is not positive, whose           *)
(* investment mode is unknown, whose endDate is before its startDate, or   *)
(* which is a SIP without an endDate strictly after its startDate, is      *)
(* answered with the validation error, and no price is fetched and no      *)
(* simulation computed for it.                                             *)

ClaimedInvalid(b) ==
  \/ b.amount <= 0
  \/ b.investmentType \notin {"sip", "lump"}
  \/ "endDate" \in DOMAIN b /\ ParseISO(b.endDate) < ParseISO(b.startDate)
  \/ /\ b.investmentType = "sip"
     /\ \/ "endDate" \notin DOMAIN b
        \/ ParseISO(b.endDate) <= ParseISO(b.startDate)

C24_InvalidRequestRejected ==
  (pc \notin {"idle", "received"} /\ ClaimedInvalid(rawBody)) =>
    /\ pc = "done"
    /\ response = ErrorResponse(400, "Validation failed")
    /\ fundData = <<>>
    /\ comparison = NullRef


----------------------------------------------------------------------------
(* C25: while the two fund fetches of a comparison are outstanding the     *)
(* benchmark fetch has been started too, and no simulation has been        *)
(* computed before the benchmark fetch has settled.                        *)

\* the handler awaits Promise.all of the two getFundNavData calls
FundFetchesOutstanding == pc = "validated"

\* the handler has reached the response after the try/catch of the index leg
BenchmarkFetchSettled == pc = "done" /\ "metadata" \in DOMAIN response

\* getIndexHistoricalData has been called
BenchmarkFetchStarted == pc = "awaitIndex" \/ BenchmarkFetchSettled

C25_FetchesConcurrentBeforeSimulation ==
  /\ FundFetchesOutstanding => BenchmarkFetchStarted
  /\ comparison # NullRef => BenchmarkFetchSettled


----------------------------------------------------------------------------
(* C26: handling a comparison changes none of its inputs: from the fetch   *)
(* to the response the cached upstream responses and the validated request *)
(* stay as they were, and the array handed to the engine is after the call *)
(* the array the handler built.                                            *)

InputsKept ==
  /\ fundData' = fundData
  /\ body' = body
  /\ (pc = "fetched" /\ navData' # navData)
       => navData' = FormatFund(fundData[1], CurrentNavFiltered).navData
  /\ pc = "awaitIndex" => navData' = navData

----------------------------------------------------------------------------
(* Provider caches: mfApiService.js, indexDataService.js, database.js      *)
(*                                                                         *)
(* now is Date.now() in milliseconds.  A response is identified by the     *)
(* time it was obtained from the upstream API.  memoryCache and            *)
(* cacheExpiry hold the two Maps of each service, apiCache the rows of the *)
(* table api_cache, and calls the calls in progress or returned, one per   *)
(* caller.                                                                 *)

\* the clock advances by a quarter of an hour, MaxTicks times
MaxTicks == 3

TickLength == 15 * 60 * 1000

DEFAULT_CACHE_TTL == 30 * 60 * 1000

cacheDuration == 5 * 60 * 1000

\* parseInt(process.env.CACHE_TTL_NAV) || 3600000
CACHE_TTL_NAV == 3600000

ServiceOf(fn) == IF fn = "getFundNavData" THEN "mfApiService" ELSE "indexDataService"

\* `mf_nav_${schemeCode}` and `index_history_${indexKey}_${period}`
CacheKeyOf(fn) == IF fn = "getFundNavData" THEN "mf_nav_100001" ELSE "index_history_nifty50_1y"

Remove(f, k) == [x \in (DOMAIN f) \ {k} |-> f[x]]

\* the entry is there and past its expiry: isMemoryCacheValid deletes it
MemoryCacheExpired(service, key) ==
  /\ key \in DOMAIN memoryCache[service]
  /\ key \in DOMAIN cacheExpiry[service]
  /\ now > cacheExpiry[service][key]

\* indexDataService asks for the key in both maps, mfApiService in the first
isMemoryCacheValid(service, key) ==
  /\ key \in DOMAIN memoryCache[service]
  /\ key \in DOMAIN cacheExpiry[service] \/ service = "mfApiService"
  /\ ~MemoryCacheExpired(service, key)

\* the two maps after isMemoryCacheValid
AfterValidityCheck(service, key) ==
  IF MemoryCacheExpired(service, key)
  THEN /\ memoryCache' = [memoryCache EXCEPT ![service] = Remove(@, key)]
       /\ cacheExpiry' = [cacheExpiry EXCEPT ![service] = Remove(@, key)]
  ELSE UNCHANGED <<memoryCache, cacheExpiry>>

setMemoryCache(service, key, data, ttl) ==
  /\ memoryCache' = [memoryCache EXCEPT ![service] = Put(@, key, data)]
  /\ cacheExpiry' = [cacheExpiry EXCEPT ![service] = Put(@, key, now + ttl)]

\* database.getCache: the row's data while expires_at > NOW(), else null
getCache(key) ==
  IF key \in DOMAIN apiCache /\ apiCache[key].expires_at > now
  THEN apiCache[key].cache_data ELSE NullRef

CallRecord(fn, state, data, result) ==
  [fn |-> fn, pc |-> state, calledAt |-> now, data |-> data, result |-> result,
   upstreamFailed |-> FALSE]

Idle(c) == calls[c].pc \in {"idle", "returned"}

\* getFundNavData up to its first await: the memory cache, then the
\* database cache or the upstream request
GetFundNavDataCall(c) ==
  /\ Idle(c)
  /\ AfterValidityCheck("mfApiService", CacheKeyOf("getFundNavData"))
  /\ calls' = [calls EXCEPT ![c] =
       IF isMemoryCacheValid("mfApiService", CacheKeyOf("getFundNavData"))
       THEN CallRecord("getFundNavData", "returned", NullRef,
                       memoryCache["mfApiService"][CacheKeyOf("getFundNavData")])
       ELSE CallRecord("getFundNavData",
                       IF databaseEnabled THEN "awaitGetCache" ELSE "awaitApi",
                       NullRef, NullRef)]
  /\ UNCHANGED <<now, databaseEnabled, apiCache, engineVars, routeVars,
               searchVars, shutdownVars>>

\* database.getCache resolves: a hit refreshes the memory cache and is
\* returned; a miss, or a failed query, leads to the upstream request
GetCacheReturns(c) ==
  /\ calls[c].pc = "awaitGetCache"
  /\ \E cachedData \in {getCache(CacheKeyOf(calls[c].fn)), NullRef} :
       IF cachedData # NullRef
       THEN /\ setMemoryCache(ServiceOf(calls[c].fn), CacheKeyOf(calls[c].fn), cachedData,
                              DEFAULT_CACHE_TTL)
            /\ calls' = [calls EXCEPT ![c].pc = "returned", ![c].result = cachedData]
       ELSE /\ calls' = [calls EXCEPT ![c].pc = "awaitApi"]
            /\ UNCHANGED <<memoryCache, cacheExpiry>>
  /\ UNCHANGED <<now, databaseEnabled, apiCache, engineVars, routeVars,
               searchVars, shutdownVars>>

\* the upstream request of getFundNavData resolves
ApiResponded(c) ==
  /\ calls[c].pc = "awaitApi"
  /\ calls[c].fn = "getFundNavData"
  /\ LET navDataNow == [fetchedAt |-> now]
     IN /\ setMemoryCache("mfApiService", CacheKeyOf("getFundNavData"), navDataNow,
                          DEFAULT_CACHE_TTL)
        /\ calls' = [calls EXCEPT ![c] =
                       IF databaseEnabled
                       THEN [@ EXCEPT !.pc = "awaitSetCache", !.data = navDataNow]
                       ELSE [@ EXCEPT !.pc = "returned", !.data = navDataNow,
                                      !.result = navDataNow]]
  /\ UNCHANGED <<now, databaseEnabled, apiCache, engineVars, routeVars,
               searchVars, shutdownVars>>

\* database.setCache resolves, the row written or the query failed, and
\* getFundNavData returns
SetCacheReturns(c) ==
  /\ calls[c].pc = "awaitSetCache"
  /\ \/ apiCache' = Put(apiCache, CacheKeyOf(calls[c].fn),
                        [cache_data |-> calls[c].data,
                         expires_at |-> calls[c].data.fetchedAt + CACHE_TTL_NAV])
     \/ UNCHANGED apiCache
  /\ calls' = [calls EXCEPT ![c].pc = "returned", ![c].result = calls[c].data]
  /\ UNCHANGED <<now, databaseEnabled, memoryCache, cacheExpiry, engineVars, routeVars,
               searchVars, shutdownVars>>

\* getIndexHistoricalData up to its await
GetIndexHistoricalDataCall(c) ==
  /\ Idle(c)
  /\ AfterValidityCheck("indexDataService", CacheKeyOf("getIndexHistoricalData"))
  /\ calls' = [calls EXCEPT ![c] =
       IF isMemoryCacheValid("indexDataService", CacheKeyOf("getIndexHistoricalData"))
       THEN CallRecord("getIndexHistoricalData", "returned", NullRef,
                       memoryCache["indexDataService"][CacheKeyOf("getIndexHistoricalData")])
       ELSE CallRecord("getIndexHistoricalData", "awaitApi", NullRef, NullRef)]
  /\ UNCHANGED <<now, databaseEnabled, apiCache, engineVars, routeVars,
               searchVars, shutdownVars>>

\* the chart request resolves with a result
IndexApiResponded(c) ==
  /\ calls[c].pc = "awaitApi"
  /\ calls[c].fn = "getIndexHistoricalData"
  /\ setMemoryCache("indexDataService", CacheKeyOf("getIndexHistoricalData"),
                    [fetchedAt |-> now], cacheDuration * 6)
  /\ calls' = [calls EXCEPT ![c].pc = "returned", ![c].data = [fetchedAt |-> now],
                            ![c].result = [fetchedAt |-> now]]
  /\ UNCHANGED <<now, databaseEnabled, apiCache, engineVars, routeVars,
               searchVars, shutdownVars>>

\* a handler that caches a placeholder for the failed key
ApiFailed_CachesPlaceholder(c) ==
  /\ calls[c].pc = "awaitApi"
  /\ calls' = [calls EXCEPT ![c].pc = "returned", ![c].upstreamFailed = TRUE,
                            ![c].result = Threw("upstream")]
  /\ memoryCache' = [memoryCache EXCEPT ![ServiceOf(calls[c].fn)] =
                       Put(@, CacheKeyOf(calls[c].fn), NullRef)]
  /\ UNCHANGED <<now, databaseEnabled, cacheExpiry, apiCache, engineVars, routeVars,
               searchVars, shutdownVars>>

\* the upstream request of either function rejects: the catch block logs
\* and throws
ApiFailed(c) ==
  /\ calls[c].pc = "awaitApi"
  /\ calls' = [calls EXCEPT ![c].pc = "returned", ![c].upstreamFailed = TRUE,
                            ![c].result = Threw("upstream")]
  /\ UNCHANGED <<now, databaseEnabled, memoryCache, cacheExpiry, apiCache, engineVars, routeVars,
               searchVars, shutdownVars>>

Tick ==
  /\ now < MaxTicks * TickLength
  /\ now' = now + TickLength
  /\ UNCHANGED <<databaseEnabled, memoryCache, cacheExpiry, apiCache, calls, engineVars, routeVars,
               searchVars, shutdownVars>>

\* ENABLE_DATABASE is read once, by the constructor
CacheInit ==
  /\ navData = <<>>
  /\ targetDate = 0
  /\ ret = NoReturn
  /\ RouteIdle
  /\ databaseEnabled \in BOOLEAN
  /\ CachesEmpty
  /\ DropdownCreated
  /\ ServerListening

CacheNext ==
  \/ \E c \in Callers : GetFundNavDataCall(c)
  \/ \E c \in Callers : GetCacheReturns(c)
  \/ \E c \in Callers : ApiResponded(c)
  \/ \E c \in Callers : SetCacheReturns(c)
  \/ \E c \in Callers : GetIndexHistoricalDataCall(c)
  \/ \E c \in Callers : IndexApiResponded(c)
  \/ \E c \in Callers : ApiFailed(c)
  \/ Tick

CacheSpec == CacheInit /\ [][CacheNext]_vars

----------------------------------------------------------------------------
(* C27: a response obtained from the upstream API at time t is served from *)
(* the cache only until t + 30 minutes: what a call of getFundNavData      *)
(* returns was obtained no more than 30 minutes before the call was made,  *)
(* with or without the database cache.                                     *)

C27_CacheServesThirtyMinutes ==
  \A c \in Callers :
    (calls[c].fn = "getFundNavData" /\ calls[c].pc = "returned" /\ ~calls[c].upstreamFailed)
      => calls[c].calledAt <= calls[c].result.fetchedAt + DEFAULT_CACHE_TTL

----------------------------------------------------------------------------
(* C28: when the upstream request of getFundNavData or of                  *)
(* getIndexHistoricalData fails, the call throws and leaves the memory     *)
(* cache and its expiry map as they were; and the two maps of a service    *)
(* hold the same keys after every step, as they do when constructed.       *)

SameKeys == \A s \in Services : DOMAIN memoryCache[s] = DOMAIN cacheExpiry[s]

\* the step in which the upstream request of c fails
UpstreamFails(c) ==
  /\ calls[c].pc = "awaitApi"
  /\ calls'[c].upstreamFailed

FailureStoresNothing ==
  \A c \in Callers :
    UpstreamFails(c) =>
      /\ calls'[c].pc = "returned"
      /\ calls'[c].result.threw
      /\ memoryCache' = memoryCache
      /\ cacheExpiry' = cacheExpiry

C28_FailureStoresNothing == [][FailureStoresNothing /\ SameKeys']_vars

\* a request failed while the other caller's response is cached, and a
\* later call was served from the cache
C28_Witness ==
  /\ calls["a"].upstreamFailed
  /\ calls["b"].pc = "returned"
  /\ ~calls["b"].upstreamFailed
  /\ calls["b"].fn = calls["a"].fn
  /\ calls["b"].calledAt > calls["b"].result.fetchedAt
  /\ calls["a"].calledAt < calls["b"].result.fetchedAt


----------------------------------------------------------------------------
(* Fund search: frontend/src/components/FundSearchDropdown.js              *)
(*                                                                         *)
(* searchTerm and shownFunds are the component's state (funds is the name  *)
(* in the source), debounceTimer tells whether the timer of the last       *)
(* effect is pending, and searches holds the queries of the requests in    *)
(* flight.  A list of funds is identified by the query it answers.         *)

SearchTerms == {<<>>, <<"a">>, <<"a", "b">>, <<"a", "b", "c">>, <<"a", "b", "d">>}

\* what searchFunds asks for: the initial funds below two characters
QueryOf(term) == IF Len(term) < 2 THEN <<>> ELSE term

\* handleInputChange, handleInputFocus or handleFundSelect set another term:
\* the cleanup of the effect clears the timer and the effect sets a new one
SetSearchTerm ==
  /\ \E term \in SearchTerms \ {searchTerm} : searchTerm' = term
  /\ debounceTimer' = TRUE
  /\ UNCHANGED <<shownFunds, searches, engineVars, routeVars, cacheVars, shutdownVars>>

\* the timer fires after 300 ms: searchFunds sends its request
DebounceFired ==
  /\ debounceTimer
  /\ debounceTimer' = FALSE
  /\ searches' = searches \cup {QueryOf(searchTerm)}
  /\ UNCHANGED <<searchTerm, shownFunds, engineVars, routeVars, cacheVars, shutdownVars>>

\* apiService.searchFunds resolves, with the server's answer or with the
\* mock funds it falls back to: setFunds
SearchResolved ==
  /\ \E query \in searches :
       /\ shownFunds' = [query |-> query]
       /\ searches' = searches \ {query}
  /\ UNCHANGED <<searchTerm, debounceTimer, engineVars, routeVars, cacheVars, shutdownVars>>

SearchNext ==
  \/ SetSearchTerm
  \/ DebounceFired
  \/ SearchResolved

SearchSpec == Init /\ [][SearchNext]_vars

----------------------------------------------------------------------------
(* C29: once no timer is pending and no search request is in flight, the   *)
(* fund list shown in the dropdown is the result for the search term typed *)
(* last.                                                                   *)

SearchesSettled == ~debounceTimer /\ searches = {}

C29_LatestSearchShown ==
  SearchesSettled => shownFunds.query = QueryOf(searchTerm)


----------------------------------------------------------------------------
(* Shutdown: server.js                                                     *)
(*                                                                         *)
(* server is the state of the HTTP server, pool that of the database pool, *)
(* closeCallbacks the number of callbacks of server.close still to run,    *)
(* forceTimer whether a timer of gracefulShutdown is pending, exit the     *)
(* call of process.exit that ended the process, and probes the last        *)
(* request of each probe path: none, pending in its handler, or answered.  *)

\* SIGTERM and SIGINT may both arrive
MaxSignals == 2

Running == exit = NullRef

\* gracefulShutdown
Signal ==
  /\ Running
  /\ signals < MaxSignals
  /\ signals' = signals + 1
  /\ isShuttingDown' = TRUE
  /\ server' = IF server = "listening" THEN "closing" ELSE server
  /\ closeCallbacks' = closeCallbacks + 1
  /\ forceTimer' = TRUE
  /\ UNCHANGED <<pool, exit, probes, engineVars, routeVars, cacheVars, searchVars>>

\* a request for /health or /ready arrives on an open connection: answered
\* at once while shutting down, else the handler awaits its checks
ProbeReceived ==
  /\ Running
  /\ server # "closed"
  /\ \E path \in ProbePaths :
       /\ probes[path].state # "pending"
       /\ probes' = [probes EXCEPT ![path] =
                       IF isShuttingDown
                       THEN [state |-> "answered", status |-> 503, shuttingDown |-> TRUE]
                       ELSE [state |-> "pending"]]
  /\ UNCHANGED <<isShuttingDown, server, pool, closeCallbacks, forceTimer, exit, signals,
                 engineVars, routeVars, cacheVars, searchVars>>

\* the checks of a handler that found isShuttingDown false have settled
ProbeAnswered ==
  /\ Running
  /\ \E path \in ProbePaths, status \in {200, 503} :
       /\ probes[path].state = "pending"
       /\ probes' = [probes EXCEPT ![path] =
                       [state |-> "answered", status |-> status, shuttingDown |-> FALSE]]
  /\ UNCHANGED <<isShuttingDown, server, pool, closeCallbacks, forceTimer, exit, signals,
                 engineVars, routeVars, cacheVars, searchVars>>

\* the last connection has ended: the server emits 'close'
ServerClosed ==
  /\ Running
  /\ server = "closing"
  /\ \A path \in ProbePaths : probes[path].state # "pending"
  /\ server' = "closed"
  /\ UNCHANGED <<isShuttingDown, pool, closeCallbacks, forceTimer, exit, probes, signals,
                 engineVars, routeVars, cacheVars, searchVars>>

\* a callback of server.close runs up to its await, or to process.exit(0)
\* without the database
CloseCallback ==
  /\ Running
  /\ server = "closed"
  /\ closeCallbacks > 0
  /\ closeCallbacks' = closeCallbacks - 1
  /\ IF databaseEnabled
     THEN /\ pool' = IF pool = "open" THEN "ending" ELSE pool
          /\ UNCHANGED exit
     ELSE /\ exit' = [code |-> 0, by |-> "callback"]
          /\ UNCHANGED pool
  /\ UNCHANGED <<isShuttingDown, server, forceTimer, probes, signals,
                 engineVars, routeVars, cacheVars, searchVars>>

\* database.close() resolves: process.exit(0)
PoolEnded ==
  /\ Running
  /\ pool = "ending"
  /\ pool' = "ended"
  /\ exit' = [code |-> 0, by |-> "callback"]
  /\ UNCHANGED <<isShuttingDown, server, closeCallbacks, forceTimer, probes, signals,
                 engineVars, routeVars, cacheVars, searchVars>>

\* database.close() rejects: the catch block calls process.exit(1)
PoolEndFailed ==
  /\ Running
  /\ pool = "ending"
  /\ pool' = "failed"
  /\ exit' = [code |-> 1, by |-> "catch"]
  /\ UNCHANGED <<isShuttingDown, server, closeCallbacks, forceTimer, probes, signals,
                 engineVars, routeVars, cacheVars, searchVars>>

\* the timer set by gracefulShutdown fires after 10 seconds
ForcedExit ==
  /\ Running
  /\ forceTimer
  /\ exit' = [code |-> 1, by |-> "timer"]
  /\ UNCHANGED <<isShuttingDown, server, pool, closeCallbacks, forceTimer, probes, signals,
                 engineVars, routeVars, cacheVars, searchVars>>

ShutdownNext ==
  \/ Signal
  \/ ProbeReceived
  \/ ProbeAnswered
  \/ ServerClosed
  \/ CloseCallback
  \/ PoolEnded
  \/ PoolEndFailed
  \/ ForcedExit

ShutdownSpec == CacheInit /\ [][ShutdownNext]_vars

\* a pending timer fires while the process runs: the event loop stays alive
\* for it and no handler blocks
FairShutdownSpec == ShutdownSpec /\ WF_vars(ForcedExit)

----------------------------------------------------------------------------
(* C30: once a signal has been received, every /health and /ready request  *)
(* received later is answered with 503, and the process eventually exits:  *)
(* with code 0 after the server, and the database if enabled, has closed,  *)
(* or else by the forced exit of the timer.                                *)

LaterProbesRefused ==
  \A path \in ProbePaths :
    (probes[path].state = "answered" /\ probes[path].shuttingDown)
      => probes[path].status = 503

ExitAsClaimed ==
  (isShuttingDown /\ ~Running) =>
    \/ /\ exit.code = 0
       /\ server = "closed"
       /\ databaseEnabled => pool = "ended"
    \/ exit.by = "timer"

C30_GracefulShutdown ==
  /\ [](LaterProbesRefused /\ ExitAsClaimed)
  /\ isShuttingDown ~> ~Running

====
